---- MODULE Spec2Model ----
(***************************************************************************)
(* Model of marketing_strategy_dashboard_2025.py: the cached loader        *)
(* load_and_preprocess_data (lines 523-590) and the main script logic that *)
(* consumes its result (lines 487-489, 512-516, 593-606, 645-1348).        *)
(*                                                                         *)
(* A file is a name and a content; the content is a kind ("csv" text or an *)
(* "xlsx" workbook), a header and rows of cell texts.  A DataFrame is its  *)
(* columns, their dtypes and its rows (label and cells).  Cell values of a *)
(* DataFrame are records [k, n, m, s]: k is "na" (NaN / NaT / None), "num" *)
(* (n is the number in tenths, so that 4 and 4.0 are both 40 and 4.5 is    *)
(* 45), "str" (s is the text), "date" (n is year*10000+month*100+day, m is *)
(* the nanoseconds since the epoch of an instant read from a number) or    *)
(* "eng" (the real number n/10 * ln(1 + m/10), kept as a term) or "inf"    *)
(* (an infinity of sign n).                                                *)
(***************************************************************************)
EXTENDS Integers, Sequences, FiniteSets, TLC

VARIABLES
    uploaded_file,    \* st.file_uploader's value: None or a file          (512)
    data_loaded,      \* st.session_state.data_loaded                      (488)
    cache,            \* st.cache_data's store of load_and_preprocess_data (523)
    pc,               \* position of the script run / of the function body
    df,               \* the function's local df                           (529..576)
    original_shape,   \* the function's local original_shape               (534)
    ret,              \* what the call returned: [df, prep_info]           (586, 590)
    errors,           \* the st.error elements of the current script run   (589)
    main_df,          \* the script-level df of the current run            (595)
    prep_info,        \* the script-level prep_info of the current run     (595)
    view,             \* what the current script run has rendered
    parser,           \* history: the parser the current call handed the file to
    raised,           \* history: the type of the exception the call caught
    calls             \* history: the (file, result) of every returned call

vars == <<uploaded_file, data_loaded, cache, pc, df, original_shape, ret,
          errors, main_df, prep_info, view, parser, raised, calls>>

None == [k |-> "None"]

----------------------------------------------------------------------------
(* Cell values *)

NA == [k |-> "na", n |-> 0, m |-> 0, s |-> ""]
Num(x) == [k |-> "num", n |-> x, m |-> 0, s |-> ""]
Str(t) == [k |-> "str", n |-> 0, m |-> 0, s |-> t]
Date(y, m, d) == [k |-> "date", n |-> y * 10000 + m * 100 + d, m |-> 0, s |-> ""]
\* rate * ln(1 + views), both in tenths, as an uninterpreted term.
Eng(rate, views) == [k |-> "eng", n |-> rate, m |-> views, s |-> ""]
\* +inf (sign 1) or -inf (sign -1)
Inf(sign) == [k |-> "inf", n |-> sign, m |-> 0, s |-> ""]

isna(v) == v.k = "na"

\* The texts pandas' parsers read as a missing value: the empty cell and the
\* default na_values (keep_default_na=True).
NaTexts ==
    {"", "#N/A", "#N/A N/A", "#NA", "-1.#IND", "-1.#QNAN", "-NaN", "-nan",
     "1.#IND", "1.#QNAN", "<NA>", "N/A", "NA", "NULL", "NaN", "None", "n/a",
     "nan", "null"}

\* The numeric texts of the model and their values, in tenths.
NumText ==
    ("4" :> 40) @@ ("4.0" :> 40) @@ ("3" :> 30) @@ ("5" :> 50) @@
    ("1000" :> 10000) @@ ("500" :> 5000) @@ ("200" :> 2000) @@
    ("1200" :> 12000) @@ ("800" :> 8000) @@ ("4.5" :> 45) @@ ("3.5" :> 35) @@
    ("9" :> 90) @@ ("0" :> 0) @@ ("-1" :> -10) @@ ("-5" :> -50)

\* The date texts of the model and the dates they parse to.
DateText ==
    ("2025-01-01" :> Date(2025, 1, 1)) @@ ("2025-12-31" :> Date(2025, 12, 31)) @@
    ("2025-12-01" :> Date(2025, 12, 1)) @@ ("2026-01-01" :> Date(2026, 1, 1)) @@
    ("2027-01-01" :> Date(2027, 1, 1)) @@ ("2025-11-01" :> Date(2025, 11, 1))

----------------------------------------------------------------------------
(* Sequence helpers *)

Range(s) == {s[i] : i \in DOMAIN s}

Contains(s, x) == \E i \in DOMAIN s : s[i] = x

RECURSIVE SelectIdx(_, _, _)
\* The subsequence of s at the positions i (from i upward) with keep[i].
SelectIdx(s, keep, i) ==
    IF i > Len(s) THEN <<>>
    ELSE (IF keep[i] THEN <<s[i]>> ELSE <<>>) \o SelectIdx(s, keep, i + 1)

\* Variant: the selected rows come out last row first.
MaskRows_Reversed(frame, keep) ==
    [frame EXCEPT !.rows =
        [i \in 1..Len(SelectIdx(frame.rows, keep, 1)) |->
            SelectIdx(frame.rows, keep, 1)[Len(SelectIdx(frame.rows, keep, 1)) + 1 - i]]]

\* Boolean-mask row selection, df[mask]: rows kept in order, index labels kept.
MaskRows(frame, keep) ==
    [frame EXCEPT !.rows = SelectIdx(frame.rows, keep, 1)]

----------------------------------------------------------------------------
(* Results of a library call: a frame, or a raised exception *)

Ok(frame) == [ok |-> TRUE, frame |-> frame, exc |-> "", text |-> ""]
Raise(exc, text) == [ok |-> FALSE, frame |-> None, exc |-> exc, text |-> text]

----------------------------------------------------------------------------
(* Parsing: pd.read_csv / pd.read_excel (lines 528-531) *)

\* file.name.endswith('.csv')
EndsWithCsv(file) == file.name.ext = ".csv"

\* The parsers' type inference: a column whose every cell is a number or
\* missing becomes numeric; any other column keeps its texts (object dtype).
ColumnIsNumeric(content, c) ==
    \A i \in DOMAIN content.rows :
        content.rows[i][c] \in NaTexts \cup DOMAIN NumText

ParseCell(content, c, t) ==
    IF t \in NaTexts THEN NA
    ELSE IF ColumnIsNumeric(content, c) THEN Num(NumText[t])
    ELSE Str(t)

\* The dtype the parsers infer for a column: a column of numbers and missing
\* cells is numeric (float64 when a cell is missing), any other column, and
\* every column of a table without rows, is object.
InferDtype(content, c) ==
    IF content.rows # <<>> /\ ColumnIsNumeric(content, c) THEN "number" ELSE "object"

\* The DataFrame of a parsed table: its columns and their dtypes, a RangeIndex
\* 0..n-1 and the typed cells.
TextParser(content) ==
    [columns |-> content.columns,
     dtypes |-> [c \in Range(content.columns) |-> InferDtype(content, c)],
     rows |-> [i \in 1..Len(content.rows) |->
                 [idx |-> i - 1,
                  cells |-> [c \in Range(content.columns) |->
                               ParseCell(content, c, content.rows[i][c])]]]]

read_csv(file) ==
    IF file.content.kind # "csv"
    THEN Raise("UnicodeDecodeError", "'utf-8' codec can't decode byte")
    ELSE IF file.content.columns = <<>>
    THEN Raise("EmptyDataError", "No columns to parse from file")
    ELSE Ok(TextParser(file.content))

\* read_excel looks at the buffer's content, never at the name.
read_excel(file) ==
    IF file.content.kind # "xlsx"
    THEN Raise("ValueError",
               "Excel file format cannot be determined, you must specify an engine manually.")
    ELSE Ok(TextParser(file.content))

\* Lines 528-531: which parser the file is handed to, and what it gives.
ParserFor(file) == IF EndsWithCsv(file) THEN "read_csv" ELSE "read_excel"

ReadFile(file) ==
    IF ParserFor(file) = "read_csv" THEN read_csv(file) ELSE read_excel(file)

----------------------------------------------------------------------------
(* Cleaning steps (lines 536-561) *)

HasColumn(frame, c) == Contains(frame.columns, c)

\* The column c of a frame, as the sequence of its values.
Column(frame, c) == [i \in DOMAIN frame.rows |-> frame.rows[i].cells[c]]

\* df[c] = values: a new column is appended, an existing one is overwritten;
\* the column takes the dtype of the values.
AssignColumn(frame, c, values, dtype) ==
    [columns |-> IF HasColumn(frame, c) THEN frame.columns
                 ELSE Append(frame.columns, c),
     dtypes |-> [x \in Range(frame.columns) \cup {c} |->
                   IF x = c THEN dtype ELSE frame.dtypes[x]],
     rows |-> [i \in DOMAIN frame.rows |->
                 [idx |-> frame.rows[i].idx,
                  cells |-> [x \in Range(frame.columns) \cup {c} |->
                               IF x = c THEN values[i]
                               ELSE frame.rows[i].cells[x]]]]]

\* The whole nanoseconds of a number in tenths: the fraction is cut off.
WholeNanoseconds(n) == IF n >= 0 THEN n \div 10 ELSE - ((- n) \div 10)

\* The Timestamp ns nanoseconds from the epoch, for the numbers of the model
\* (within a day of it): on 1970-01-01 from 0 upward, on 1969-12-31 below 0.
\* Different numbers are different instants.
Timestamp(ns) ==
    [k |-> "date", n |-> IF ns < 0 THEN 19691231 ELSE 19700101, m |-> ns, s |-> ""]

\* pd.to_datetime(value, errors='coerce'): a number is nanoseconds since the
\* epoch, a text is parsed, anything unparseable or missing is NaT.
to_datetime(v) ==
    CASE v.k = "date" -> v
      [] v.k = "num" -> Timestamp(WholeNanoseconds(v.n))
      [] v.k = "str" -> IF v.s \in DOMAIN DateText THEN DateText[v.s] ELSE NA
      [] OTHER -> NA

date_columns == <<"Release_Date", "Viewing_Month">>

RECURSIVE ConvertDates(_, _)
\* Lines 537-540: each date column that exists is converted, in order.
ConvertDates(frame, i) ==
    IF i > Len(date_columns) THEN frame
    ELSE ConvertDates(
            IF HasColumn(frame, date_columns[i])
            THEN AssignColumn(frame, date_columns[i],
                              [r \in DOMAIN frame.rows |->
                                  to_datetime(Column(frame, date_columns[i])[r])],
                              "datetime64")
            ELSE frame,
            i + 1)

CutoffYear == 2026

\* Variant: the comparison is with the year before the cutoff year.
YearBelowCutoff_YearEarly(v) == v.k = "date" /\ v.n \div 10000 < CutoffYear - 1

\* Variant: a missing date passes the comparison.
YearBelowCutoff_KeepsNaT(v) == v.k # "date" \/ v.n \div 10000 < CutoffYear

\* series.dt.year < CutoffYear: the year of NaT is NaN, and NaN < y is False.
YearBelowCutoff(v) == v.k = "date" /\ v.n \div 10000 < CutoffYear

\* df = df[df[c].dt.year < 2026], when the column exists (543-546).
FilterYear(frame, c) ==
    IF HasColumn(frame, c)
    THEN MaskRows(frame, [i \in DOMAIN frame.rows |->
                            YearBelowCutoff(frame.rows[i].cells[c])])
    ELSE frame

\* Variant: the Viewing_Month filter is left out.
RemoveFutureDates_ReleaseOnly(frame) == FilterYear(frame, "Release_Date")

\* Lines 543-546: the Release_Date filter, then the Viewing_Month filter.
RemoveFutureDates(frame) ==
    FilterYear(FilterYear(frame, "Release_Date"), "Viewing_Month")

\* Variant: drop_duplicates(keep='last'), the last occurrence is kept.
drop_duplicates_keep_last(frame) ==
    MaskRows(frame, [i \in DOMAIN frame.rows |->
                       ~ \E j \in (i + 1)..Len(frame.rows) :
                            frame.rows[j].cells = frame.rows[i].cells])

\* df.drop_duplicates(): a row equal in every column to an earlier row is
\* dropped (missing values compare equal); the first occurrence is kept.
drop_duplicates(frame) ==
    MaskRows(frame, [i \in DOMAIN frame.rows |->
                       ~ \E j \in 1..(i - 1) :
                            frame.rows[j].cells = frame.rows[i].cells])

\* The subset columns the frame lacks, in subset order.
MissingColumns(frame, subset) ==
    SelectSeq(subset, LAMBDA c : ~ HasColumn(frame, c))

\* str(KeyError([...])) for the lists of column names that can be missing.
KeyErrorText(missing) ==
    CASE missing = <<"Film_Name">> -> "['Film_Name']"
      [] missing = <<"Viewer_Rate">> -> "['Viewer_Rate']"
      [] missing = <<"Number_of_Views">> -> "['Number_of_Views']"
      [] OTHER -> "['Viewer_Rate', 'Number_of_Views']"

\* Variant: the subset columns the table lacks are left out of the test
\* instead of raising.
dropna_existing_columns(frame, subset) ==
    Ok(MaskRows(frame, [i \in DOMAIN frame.rows |->
                          \A c \in Range(subset) \cap Range(frame.columns) :
                               ~ isna(frame.rows[i].cells[c])]))

\* Variant: dropna(how='all'), a row is dropped only when every subset
\* column is missing.
dropna_how_all(frame, subset) ==
    IF MissingColumns(frame, subset) # <<>>
    THEN Raise("KeyError", KeyErrorText(MissingColumns(frame, subset)))
    ELSE Ok(MaskRows(frame, [i \in DOMAIN frame.rows |->
                               \E c \in Range(subset) :
                                    ~ isna(frame.rows[i].cells[c])]))

\* df.dropna(subset=...): KeyError when a subset column does not exist;
\* otherwise the rows with no missing value in the subset columns.
dropna(frame, subset) ==
    IF MissingColumns(frame, subset) # <<>>
    THEN Raise("KeyError", KeyErrorText(MissingColumns(frame, subset)))
    ELSE Ok(MaskRows(frame, [i \in DOMAIN frame.rows |->
                               \A c \in Range(subset) :
                                    ~ isna(frame.rows[i].cells[c])]))

\* Variant: pd.to_numeric(value, errors='ignore'), an unparseable value is
\* left as it is.
to_numeric_ignore(v) ==
    CASE v.k = "num" -> v
      [] v.k = "str" -> IF v.s \in DOMAIN NumText THEN Num(NumText[v.s]) ELSE v
      [] OTHER -> NA

\* pd.to_numeric(value, errors='coerce')
to_numeric(v) ==
    CASE v.k = "num" -> v
      [] v.k = "str" -> IF v.s \in DOMAIN NumText THEN Num(NumText[v.s]) ELSE NA
      [] OTHER -> NA

numeric_cols == <<"Viewer_Rate", "Number_of_Views">>

\* Variant: every column of the table is coerced, df.apply(pd.to_numeric,
\* errors='coerce').
ConvertNumeric_EveryColumn(frame, i) ==
    [columns |-> frame.columns,
     dtypes |-> [c \in Range(frame.columns) |-> "number"],
     rows |-> [r \in DOMAIN frame.rows |->
                 [idx |-> frame.rows[r].idx,
                  cells |-> [c \in Range(frame.columns) |->
                               to_numeric(frame.rows[r].cells[c])]]]]

RECURSIVE ConvertNumeric(_, _)
\* Lines 555-558: each numeric column that exists is converted, in order.
ConvertNumeric(frame, i) ==
    IF i > Len(numeric_cols) THEN frame
    ELSE ConvertNumeric(
            IF HasColumn(frame, numeric_cols[i])
            THEN AssignColumn(frame, numeric_cols[i],
                              [r \in DOMAIN frame.rows |->
                                  to_numeric(Column(frame, numeric_cols[i])[r])],
                              "number")
            ELSE frame,
            i + 1)

----------------------------------------------------------------------------
(* Feature derivation (lines 563-576) *)

MonthNames ==
    <<"January", "February", "March", "April", "May", "June", "July",
      "August", "September", "October", "November", "December">>

dt_year(v) == IF v.k = "date" THEN Num((v.n \div 10000) * 10) ELSE NA
dt_month(v) == IF v.k = "date" THEN Num(((v.n \div 100) % 100) * 10) ELSE NA
dt_month_name(v) ==
    IF v.k = "date" THEN Str(MonthNames[(v.n \div 100) % 100]) ELSE NA

\* np.log1p(views), views in tenths: a real number above -1, -inf at -1 and
\* NaN below -1.
log1p(views) ==
    IF views > -10 THEN "real" ELSE IF views = -10 THEN "-inf" ELSE "nan"

\* Variant: the factors are exchanged, Number_of_Views * np.log1p(Viewer_Rate).
engagement_Exchanged(cells) ==
    IF cells["Viewer_Rate"].k = "num" /\ cells["Number_of_Views"].k = "num"
    THEN Eng(cells["Number_of_Views"].n, cells["Viewer_Rate"].n)
    ELSE NA

\* df['Viewer_Rate'] * np.log1p(df['Number_of_Views']), row by row: the
\* product with -inf is an infinity of the opposite sign of the rate, and NaN
\* when the rate is 0; the product with NaN is NaN.
engagement(cells) ==
    IF cells["Viewer_Rate"].k = "num" /\ cells["Number_of_Views"].k = "num"
    THEN CASE log1p(cells["Number_of_Views"].n) = "real" ->
                  Eng(cells["Viewer_Rate"].n, cells["Number_of_Views"].n)
           [] log1p(cells["Number_of_Views"].n) = "-inf" ->
                  IF cells["Viewer_Rate"].n > 0 THEN Inf(-1)
                  ELSE IF cells["Viewer_Rate"].n < 0 THEN Inf(1)
                  ELSE NA
           [] OTHER -> NA
    ELSE NA

\* series.dt.year, series.dt.month, series.dt.strftime('%B')
YearOf(series) == [i \in DOMAIN series |-> dt_year(series[i])]
MonthOf(series) == [i \in DOMAIN series |-> dt_month(series[i])]
MonthNameOf(series) == [i \in DOMAIN series |-> dt_month_name(series[i])]

ReleaseFeatures(frame) ==
    IF HasColumn(frame, "Release_Date")
    THEN LET f1 == AssignColumn(frame, "Release_Year",
                                YearOf(Column(frame, "Release_Date")), "number")
             f2 == AssignColumn(f1, "Release_Month",
                                MonthOf(Column(f1, "Release_Date")), "number")
         IN  AssignColumn(f2, "Release_Month_Name",
                          MonthNameOf(Column(f2, "Release_Date")), "object")
    ELSE frame

\* Variant: the month name is not derived from Viewing_Month.
ViewingFeatures_NoMonthName(frame) ==
    IF HasColumn(frame, "Viewing_Month")
    THEN LET f1 == AssignColumn(frame, "Viewing_Year",
                                YearOf(Column(frame, "Viewing_Month")), "number")
         IN  AssignColumn(f1, "Viewing_Month_Num",
                          MonthOf(Column(f1, "Viewing_Month")), "number")
    ELSE frame

ViewingFeatures(frame) ==
    IF HasColumn(frame, "Viewing_Month")
    THEN LET f1 == AssignColumn(frame, "Viewing_Year",
                                YearOf(Column(frame, "Viewing_Month")), "number")
             f2 == AssignColumn(f1, "Viewing_Month_Num",
                                MonthOf(Column(f1, "Viewing_Month")), "number")
         IN  AssignColumn(f2, "Viewing_Month_Name",
                          MonthNameOf(Column(f2, "Viewing_Month")), "object")
    ELSE frame

EngagementFeature(frame) ==
    IF HasColumn(frame, "Viewer_Rate") /\ HasColumn(frame, "Number_of_Views")
    THEN AssignColumn(frame, "Engagement_Score",
                      [i \in DOMAIN frame.rows |-> engagement(frame.rows[i].cells)],
                      "number")
    ELSE frame

CreateFeatures(frame) == EngagementFeature(ViewingFeatures(ReleaseFeatures(frame)))

\* df.shape
Shape(frame) == <<Len(frame.rows), Len(frame.columns)>>

\* Variant: the original row count is read from the wrong element of the shape.
PreprocessingInfo_WrongIndex(shape, frame) ==
    [original_rows |-> shape[2],
     original_cols |-> shape[2],
     final_rows |-> Shape(frame)[1],
     final_cols |-> Shape(frame)[2],
     removed_rows |-> shape[2] - Shape(frame)[1]]

\* Lines 578-584
PreprocessingInfo(shape, frame) ==
    [original_rows |-> shape[1],
     original_cols |-> shape[2],
     final_rows |-> Shape(frame)[1],
     final_cols |-> Shape(frame)[2],
     removed_rows |-> shape[1] - Shape(frame)[1]]

----------------------------------------------------------------------------
(* Rendering that touches the table or can stop the run (lines 645-1348) *)

\* december_df (785, 1157): the rows whose Viewing_Month_Name is December,
\* and every row when the table has no such column.
DecemberRows(frame) ==
    IF HasColumn(frame, "Viewing_Month_Name")
    THEN MaskRows(frame, [i \in DOMAIN frame.rows |->
                            frame.rows[i].cells["Viewing_Month_Name"] = Str("December")])
    ELSE frame

\* The keys of frame.groupby(c): the values of c, missing values left out.
GroupKeys(frame, c) ==
    {frame.rows[i].cells[c] : i \in DOMAIN frame.rows} \ {NA}

\* A marker size px.scatter refuses, one for which 0 <= size is false: a
\* number below 0, -inf or NaN.  A score rate * ln(1 + views) is below 0
\* when exactly one factor is.
NegativeSize(v) ==
    \/ isna(v)
    \/ v.k = "num" /\ v.n < 0
    \/ v.k = "eng" /\ ((v.n < 0 /\ v.m > 0) \/ (v.n > 0 /\ v.m < 0))
    \/ v.k = "inf" /\ v.n < 0

\* px.scatter(frame, size=c) raises ValueError on a size outside [0, inf],
\* NaN included.
ScatterRaises(frame, c) ==
    \E i \in DOMAIN frame.rows : NegativeSize(frame.rows[i].cells[c])

\* st.multiselect(options=df[c].unique(), default=df[c].unique()[:n]) raises
\* when a default value is not found among the options.  The two lists are
\* made apart: the NaN of a numeric column is a new float in each, equal to
\* nothing, while the NaN of an object column is one object, found by
\* identity.  unique() keeps the order of first appearance.
MultiselectRaises(frame, c, n) ==
    /\ frame.dtypes[c] = "number"
    /\ \E i \in DOMAIN frame.rows :
          /\ isna(frame.rows[i].cells[c])
          /\ Cardinality({frame.rows[j].cells[c] : j \in 1..i}) <= n

\* The exception tabs 1 to 5 raise before the quadrant assignment, "" when
\* none, in the order of the script: df['Category'] and df['Language'] (668,
\* 670) need their columns; dec_category.index[0] (828) needs a December row
\* with a category; the scatter plots need sizes from 0 upward, of the
\* December engagement scores (867; nlargest(10) keeps every row of a table
\* of at most ten rows) and of the views (919); the multiselects of tab 4
\* (981, 987) need their defaults among their options.
TabsException(frame) ==
    IF ~ HasColumn(frame, "Category") \/ ~ HasColumn(frame, "Language")
    THEN "KeyError"
    ELSE IF GroupKeys(DecemberRows(frame), "Category") = {} THEN "IndexError"
    ELSE IF \/ HasColumn(frame, "Engagement_Score")
               /\ ScatterRaises(DecemberRows(frame), "Engagement_Score")
            \/ ScatterRaises(frame, "Number_of_Views")
    THEN "ValueError"
    ELSE IF MultiselectRaises(frame, "Category", 3)
            \/ MultiselectRaises(frame, "Language", 5)
    THEN "StreamlitAPIException"
    ELSE ""

\* The exception tab 6 raises, "" when none: idxmax() of the December views
\* by category and by language (1159-1160) needs a group.
RecommendationsException(frame) ==
    IF GroupKeys(DecemberRows(frame), "Category") = {}
       \/ GroupKeys(DecemberRows(frame), "Language") = {}
    THEN "ValueError"
    ELSE ""

\* Twice the median of the "num" column c (Series.median()); None when the
\* column is empty (the median is NaN and every comparison with it is False).
Median2(frame, c) ==
    LET vals == SortSeq([i \in DOMAIN frame.rows |-> frame.rows[i].cells[c].n],
                        LAMBDA a, b : a < b)
        n == Len(vals)
    IN  IF n = 0 THEN None
        ELSE IF n % 2 = 1 THEN [k |-> "num2", n |-> 2 * vals[(n + 1) \div 2]]
        ELSE [k |-> "num2", n |-> vals[n \div 2] + vals[n \div 2 + 1]]

\* Variant: a value equal to the median is not counted as above it.
GeMedian_Strict(v, med2) == med2 # None /\ 2 * v.n > med2.n

\* value >= median, value < median
GeMedian(v, med2) == med2 # None /\ 2 * v.n >= med2.n
LtMedian(v, med2) == med2 # None /\ 2 * v.n < med2.n

\* Lines 1113-1116: the default label, then three masked assignments.
QuadrantLabel(cells, median_views, median_rating) ==
    LET q0 == "Low Performance"
        q1 == IF GeMedian(cells["Number_of_Views"], median_views)
                 /\ GeMedian(cells["Viewer_Rate"], median_rating)
              THEN "Star Performers" ELSE q0
        q2 == IF GeMedian(cells["Number_of_Views"], median_views)
                 /\ LtMedian(cells["Viewer_Rate"], median_rating)
              THEN "High Views, Low Rating" ELSE q1
    IN  IF LtMedian(cells["Number_of_Views"], median_views)
           /\ GeMedian(cells["Viewer_Rate"], median_rating)
        THEN "Hidden Gems" ELSE q2

\* Variant: the analysis keeps the rows it labels other than Low Performance.
AddQuadrant_Filtered(frame) ==
    LET median_views == Median2(frame, "Number_of_Views")
        median_rating == Median2(frame, "Viewer_Rate")
        labelled == AssignColumn(frame, "Quadrant",
                        [i \in DOMAIN frame.rows |->
                            Str(QuadrantLabel(frame.rows[i].cells,
                                              median_views, median_rating))],
                        "object")
    IN  MaskRows(labelled, [i \in DOMAIN labelled.rows |->
                              labelled.rows[i].cells["Quadrant"] # Str("Low Performance")])

AddQuadrant(frame) ==
    LET median_views == Median2(frame, "Number_of_Views")
        median_rating == Median2(frame, "Viewer_Rate")
    IN  AssignColumn(frame, "Quadrant",
                     [i \in DOMAIN frame.rows |->
                         Str(QuadrantLabel(frame.rows[i].cells,
                                           median_views, median_rating))],
                     "object")

----------------------------------------------------------------------------
(* st.cache_data (line 523) *)

\* Variant: the key is the file's name alone.
CacheKey_NameOnly(file) == file.name

\* The key of a call: the file's name and bytes.
CacheKey(file) == file

IsCached(store, file) == \E e \in store : e.key = CacheKey(file)

CachedEntry(store, file) == CHOOSE e \in store : e.key = CacheKey(file)

\* A miss stores the returned value and the elements the call displayed.
CacheStore(store, file, value, msgs) ==
    {e \in store : e.key # CacheKey(file)}
        \cup {[key |-> CacheKey(file), value |-> value, msgs |-> msgs]}

\* Variant: the cache hands out the stored object itself (as
\* st.cache_resource does), so the caller's mutation reaches the entry.
ValueAfterCallerMutation_Shared(stored, mutated) == mutated

\* What an entry holds once the caller has mutated the value it was handed:
\* st.cache_data hands out a copy, so the stored value stays as it was.
ValueAfterCallerMutation(stored, mutated) == stored

----------------------------------------------------------------------------
(* Inputs *)

Name(ext) == [stem |-> "data", ext |-> ext]

Content(kind, columns, rows) == [kind |-> kind, columns |-> columns, rows |-> rows]

AllColumns ==
    <<"Film_Name", "Viewer_Rate", "Number_of_Views", "Release_Date", "Viewing_Month">>

\* The columns the tabs read besides the pipeline's: Category and Language.
RenderColumns ==
    <<"Film_Name", "Category", "Language", "Viewer_Rate", "Number_of_Views",
      "Release_Date", "Viewing_Month">>

\* The headers of the model: all columns, all columns but some, and the
\* required columns with one more column: a column the program does not
\* know, or a column that bears the name of a derived field.
Headers ==
    {AllColumns,
     <<"Film_Name", "Viewer_Rate", "Number_of_Views", "Notes">>,
     <<"Film_Name", "Viewer_Rate", "Number_of_Views", "Engagement_Score">>,
     <<"Film_Name", "Viewer_Rate", "Number_of_Views", "Viewing_Month">>,
     <<"Film_Name", "Viewer_Rate", "Number_of_Views", "Release_Date">>,
     <<"Film_Name", "Viewer_Rate", "Number_of_Views">>,
     <<"Viewer_Rate", "Number_of_Views", "Release_Date", "Viewing_Month">>,
     <<"Film_Name", "Number_of_Views", "Release_Date", "Viewing_Month">>,
     <<"Film_Name", "Viewer_Rate", "Release_Date", "Viewing_Month">>,
     <<>>}

BaseRow ==
    [Film_Name |-> "A", Viewer_Rate |-> "4", Number_of_Views |-> "1000",
     Release_Date |-> "2025-12-31", Viewing_Month |-> "2025-12-01"]

\* The base row with a cell for every column of the model.
WideRow ==
    BaseRow @@ [Category |-> "Drama", Language |-> "English", Notes |-> "n1",
                Engagement_Score |-> "9", Quadrant |-> "Old"]

CellTexts ==
    [Film_Name |-> {"A", "B", ""},
     Viewer_Rate |-> {"4", "4.0", "x"},
     Number_of_Views |-> {"1000", "500", "x", "-5"},
     Release_Date |-> {"2025-12-31", "2026-01-01", "bad", ""},
     Viewing_Month |-> {"2025-12-01", "2027-01-01", ""},
     Notes |-> {"n1", "n2"}]

\* The rows of the model: the base row with at most one cell replaced.
RowTexts ==
    UNION {{[WideRow EXCEPT ![c] = t] : t \in CellTexts[c]} : c \in DOMAIN CellTexts}

Restrict(row, columns) == [c \in Range(columns) |-> row[c]]

MaxRows == 3

\* The tables of k rows under a header.
Tables(columns, k) == [1..k -> {Restrict(r, columns) : r \in RowTexts}]

\* The example of the specification's section 8: rows A, A, (no name, no
\* date), B (released 2027).
ExampleColumns == <<"Film_Name", "Viewer_Rate", "Number_of_Views", "Release_Date">>

ExampleRows ==
    <<[Film_Name |-> "A", Viewer_Rate |-> "4", Number_of_Views |-> "1000",
       Release_Date |-> "2025-01-01"],
      [Film_Name |-> "A", Viewer_Rate |-> "4", Number_of_Views |-> "1000",
       Release_Date |-> "2025-01-01"],
      [Film_Name |-> "", Viewer_Rate |-> "3", Number_of_Views |-> "500",
       Release_Date |-> ""],
      [Film_Name |-> "B", Viewer_Rate |-> "5", Number_of_Views |-> "200",
       Release_Date |-> "2027-01-01"]>>

ExampleFile ==
    [name |-> Name(".csv"), content |-> Content("csv", ExampleColumns, ExampleRows)]

\* A file named .csv that holds delimited text.
CsvFile(columns, rows) ==
    [name |-> Name(".csv"), content |-> Content("csv", columns, rows)]

\* The headers of the tables that are rendered: the tabs' columns, the same
\* without Category, without Viewing_Month, and with a column named Quadrant.
RenderHeaders ==
    {RenderColumns,
     <<"Film_Name", "Language", "Viewer_Rate", "Number_of_Views",
       "Release_Date", "Viewing_Month">>,
     <<"Film_Name", "Category", "Language", "Viewer_Rate", "Number_of_Views",
       "Release_Date">>,
     Append(RenderColumns, "Quadrant")}

\* The rows of the tables that are rendered: ratings and views on both sides
\* of a median, views below 0, a second category, no language, a viewing
\* month other than December, and a release date the pipeline removes.
RenderRowTexts ==
    {WideRow,
     [WideRow EXCEPT !.Number_of_Views = "-5"],
     [WideRow EXCEPT !.Viewer_Rate = "5"],
     [WideRow EXCEPT !.Number_of_Views = "500"],
     [WideRow EXCEPT !.Viewer_Rate = "3", !.Number_of_Views = "500"],
     [WideRow EXCEPT !.Category = "Comedy"],
     [WideRow EXCEPT !.Language = ""],
     [WideRow EXCEPT !.Viewing_Month = "2025-11-01"],
     [WideRow EXCEPT !.Release_Date = "2026-01-01"]}

\* The rendered tables of k rows under a header.
RenderTables(columns, k) == [1..k -> {Restrict(r, columns) : r \in RenderRowTexts}]

\* The quadrant example of the specification's section 8: the medians are
\* views = 1000 and rating = 4.0.
QuadrantExampleRows ==
    <<Restrict([WideRow EXCEPT !.Film_Name = "A", !.Number_of_Views = "1200",
                               !.Viewer_Rate = "4.5"], RenderColumns),
      Restrict([WideRow EXCEPT !.Film_Name = "B", !.Number_of_Views = "1200",
                               !.Viewer_Rate = "3.5"], RenderColumns),
      Restrict([WideRow EXCEPT !.Film_Name = "C", !.Number_of_Views = "800",
                               !.Viewer_Rate = "4.5"], RenderColumns),
      Restrict([WideRow EXCEPT !.Film_Name = "D", !.Number_of_Views = "800",
                               !.Viewer_Rate = "3.5"], RenderColumns)>>

QuadrantExampleFile == CsvFile(RenderColumns, QuadrantExampleRows)

\* A workbook, files whose name does not say what they hold, and files
\* whose extension is written in capitals; the uploader lets each through.
OtherFiles ==
    {[name |-> Name(p[1]), content |-> Content(p[2], AllColumns, t)] :
        p \in {<<".xlsx", "xlsx">>, <<".xlsx", "csv">>, <<".csv", "xlsx">>,
               <<".CSV", "csv">>, <<".CSV", "xlsx">>,
               <<".XLSX", "xlsx">>, <<".XLSX", "csv">>},
        t \in {<<>>, <<BaseRow>>}}

\* The header with a column named like each derived field, and Notes.
DateFieldColumns ==
    AllColumns \o <<"Release_Year", "Release_Month", "Release_Month_Name",
                    "Viewing_Year", "Viewing_Month_Num", "Viewing_Month_Name",
                    "Engagement_Score", "Notes">>

\* The base row with a cell for each of these columns.
DateFieldRow ==
    BaseRow @@ [Release_Year |-> "9", Release_Month |-> "9",
                Release_Month_Name |-> "Old", Viewing_Year |-> "9",
                Viewing_Month_Num |-> "9", Viewing_Month_Name |-> "Old",
                Engagement_Score |-> "9", Notes |-> "n1"]

\* The header h without the columns of the set s.
Without(h, s) == SelectSeq(h, LAMBDA c : c \notin s)

\* Tables that have columns named like the derived fields, with both date
\* columns, with one of them and with none; a row of each is removed.
DerivedNameFiles ==
    {CsvFile(Without(DateFieldColumns, s),
             <<Restrict(DateFieldRow, Without(DateFieldColumns, s)),
               Restrict([DateFieldRow EXCEPT !.Viewer_Rate = "x"],
                        Without(DateFieldColumns, s)),
               Restrict([DateFieldRow EXCEPT !.Film_Name = "B",
                                             !.Release_Date = "2025-01-01",
                                             !.Viewing_Month = "2025-11-01"],
                        Without(DateFieldColumns, s))>>) :
        s \in SUBSET {"Release_Date", "Viewing_Month"}}

\* Tables with Number_of_Views at and below -1, the edge of the logarithm,
\* under a positive, a zero and a negative Viewer_Rate.
LogEdgeFiles ==
    {CsvFile(AllColumns,
             <<BaseRow,
               [BaseRow EXCEPT !.Number_of_Views = "-1"],
               [BaseRow EXCEPT !.Number_of_Views = "-1", !.Viewer_Rate = "0"],
               [BaseRow EXCEPT !.Number_of_Views = "-1", !.Viewer_Rate = "-5"],
               [BaseRow EXCEPT !.Number_of_Views = "-5"],
               [BaseRow EXCEPT !.Number_of_Views = "0", !.Viewer_Rate = "0"]>>)}
    \cup {CsvFile(AllColumns, <<[BaseRow EXCEPT !.Number_of_Views = "-1",
                                                !.Viewer_Rate = t]>>) :
             t \in {"4", "0", "-5", "x"}}

\* Tables at the edges of the parsers: a film whose name reads as missing
\* next to a film with a name, and date columns that hold nothing but
\* numbers (one number, a number and an empty cell, two numbers that are
\* different instants, two that are the same, two that differ by a fraction
\* of a nanosecond).
EdgeFiles ==
    {CsvFile(AllColumns, <<BaseRow, [BaseRow EXCEPT !.Film_Name = t]>>) :
        t \in {"NA", "null", "None"}}
    \cup {CsvFile(AllColumns, <<[BaseRow EXCEPT !.Release_Date = t]>>) :
             t \in {"-1", "0", "4"}}
    \cup {CsvFile(AllColumns, <<[BaseRow EXCEPT !.Viewing_Month = "-5"],
                                [BaseRow EXCEPT !.Viewing_Month = ""]>>),
           CsvFile(AllColumns, <<[BaseRow EXCEPT !.Release_Date = "0"],
                                [BaseRow EXCEPT !.Release_Date = "4"]>>),
           CsvFile(AllColumns, <<[BaseRow EXCEPT !.Release_Date = "4"],
                                [BaseRow EXCEPT !.Release_Date = "4.0"]>>),
           CsvFile(AllColumns, <<[BaseRow EXCEPT !.Release_Date = "4"],
                                [BaseRow EXCEPT !.Release_Date = "4.5"]>>),
           CsvFile(AllColumns, <<[BaseRow EXCEPT !.Release_Date = "4.5"],
                                [BaseRow EXCEPT !.Release_Date = "5"],
                                [BaseRow EXCEPT !.Release_Date = "4"]>>)}
    \cup DerivedNameFiles
    \cup LogEdgeFiles

\* The files the session's user uploads: a table with rows to remove by
\* their values, a second content under the same name with rows to remove
\* by their date and name, a workbook without Category and Language, a
\* table with no Film_Name column, a workbook named .csv, a table named
\* data.CSV, a text file the uploader refuses, and the example.
SessionFiles ==
    {[name |-> Name(".csv"),
      content |-> Content("csv", RenderColumns,
                          <<Restrict(WideRow, RenderColumns),
                            Restrict([WideRow EXCEPT !.Viewer_Rate = "5",
                                                     !.Category = "Comedy"],
                                     RenderColumns),
                            Restrict([WideRow EXCEPT !.Viewer_Rate = "x"],
                                     RenderColumns)>>)],
     [name |-> Name(".csv"),
      content |-> Content("csv", RenderColumns,
                          <<Restrict(WideRow, RenderColumns),
                            Restrict([WideRow EXCEPT !.Release_Date = "2026-01-01"],
                                     RenderColumns),
                            Restrict([WideRow EXCEPT !.Film_Name = ""],
                                     RenderColumns)>>)],
     [name |-> Name(".xlsx"), content |-> Content("xlsx", AllColumns, <<BaseRow>>)],
     [name |-> Name(".csv"),
      content |-> Content("csv", <<"Viewer_Rate", "Number_of_Views">>,
                          <<Restrict(BaseRow, <<"Viewer_Rate", "Number_of_Views">>)>>)],
     [name |-> Name(".csv"), content |-> Content("xlsx", AllColumns, <<BaseRow>>)],
     [name |-> Name(".CSV"), content |-> Content("csv", AllColumns, <<BaseRow>>)],
     [name |-> Name(".txt"), content |-> Content("csv", AllColumns, <<BaseRow>>)],
     ExampleFile}

----------------------------------------------------------------------------
(* State *)

\* The page: the welcome screen, the summary metrics, the tabs, the table
\* offered for download and the exception that stopped the run.
Blank ==
    [welcome |-> FALSE, summary |-> None, tabs |-> FALSE, export |-> None,
     exception |-> ""]

Welcome == [Blank EXCEPT !.welcome = TRUE]

NoResult == [df |-> None, prep_info |-> None]

\* The state of a script run before its first statement.
FreshRun ==
    /\ pc = "idle"
    /\ df = None
    /\ original_shape = None
    /\ ret = None
    /\ errors = <<>>
    /\ main_df = None
    /\ prep_info = None
    /\ parser = "none"
    /\ raised = ""

\* A new session: data_loaded is initialised (488-489), no file is uploaded
\* and the first script run has shown the welcome screen (1350).
Init ==
    /\ uploaded_file = None
    /\ data_loaded = FALSE
    /\ cache = {}
    /\ calls = {}
    /\ view = Welcome
    /\ FreshRun

\* A single call of load_and_preprocess_data, on any file of the model the
\* uploader lets through: one of the other files, one of the edge files,
\* the example, or a .csv file with a table of at most MaxRows rows under
\* one of the headers.
InitCall ==
    /\ \/ uploaded_file \in OtherFiles
       \/ uploaded_file \in EdgeFiles
       \/ uploaded_file = ExampleFile
       \/ \E h \in Headers : \E k \in 0..MaxRows : \E t \in Tables(h, k) :
             uploaded_file = CsvFile(h, t)
    /\ data_loaded = FALSE
    /\ cache = {}
    /\ calls = {}
    /\ view = Blank
    /\ pc = "call"
    /\ df = None
    /\ original_shape = None
    /\ ret = None
    /\ errors = <<>>
    /\ main_df = None
    /\ prep_info = None
    /\ parser = "none"
    /\ raised = ""

\* A single script run, at its call of the loader, on any table that is
\* rendered: a .csv file with a table of at most MaxRows rows under one of
\* the rendered headers, or the quadrant example.
InitRun ==
    /\ \/ \E h \in RenderHeaders : \E k \in 0..MaxRows : \E t \in RenderTables(h, k) :
             uploaded_file = CsvFile(h, t)
       \/ uploaded_file = QuadrantExampleFile
    /\ data_loaded = FALSE
    /\ cache = {}
    /\ calls = {}
    /\ view = Blank
    /\ pc = "call"
    /\ df = None
    /\ original_shape = None
    /\ ret = None
    /\ errors = <<>>
    /\ main_df = None
    /\ prep_info = None
    /\ parser = "none"
    /\ raised = ""

----------------------------------------------------------------------------
(* The script run up to the call (lines 487-595) *)

\* The script is at a Streamlit call, where the script runner stops the run
\* once an event has arrived: the spinners around the call (594 and the
\* decorator's) before it and after it, st.error (589) when a step of the
\* body raises, and the elements of the page from 600 on.  The pandas steps
\* of the body and the quadrant assignment (1110-1116) hold no such call.
AtStreamlitCall ==
    \/ pc \in {"call", "returned", "show_summary", "tabs", "recommend", "export"}
    \/ pc = "read" /\ ~ ReadFile(uploaded_file).ok
    \/ pc = "name" /\ ~ dropna(df, <<"Film_Name">>).ok
    \/ pc = "required" /\ ~ dropna(df, numeric_cols).ok

\* An event starts a script run when none is running, or stops the running
\* one at its next Streamlit call.
EventTaken == pc = "idle" \/ AtStreamlitCall

\* Variant: the tabs are created before the loader is called.
StartRun_DrawsTabs ==
    /\ pc' = "call"
    /\ df' = None
    /\ original_shape' = None
    /\ ret' = None
    /\ errors' = <<>>
    /\ main_df' = None
    /\ prep_info' = None
    /\ parser' = "none"
    /\ raised' = ""
    /\ view' = [Blank EXCEPT !.tabs = TRUE]
    /\ UNCHANGED <<data_loaded, cache, calls>>

\* Variant: the elements of the previous run stay on the page.
StartRun_KeepsPage ==
    /\ pc' = "call"
    /\ df' = None
    /\ original_shape' = None
    /\ ret' = None
    /\ errors' = <<>>
    /\ main_df' = None
    /\ prep_info' = None
    /\ parser' = "none"
    /\ raised' = ""
    /\ UNCHANGED <<data_loaded, cache, calls, view>>

\* A script run starts: the page is emptied, the locals are fresh, and
\* since a file is uploaded (593) the loader is called (595).
StartRun ==
    /\ pc' = "call"
    /\ df' = None
    /\ original_shape' = None
    /\ ret' = None
    /\ errors' = <<>>
    /\ main_df' = None
    /\ prep_info' = None
    /\ parser' = "none"
    /\ raised' = ""
    /\ view' = Blank
    /\ UNCHANGED <<data_loaded, cache, calls>>

\* The extension in lower case, for the extensions of the model.
Lower(ext) ==
    CASE ext = ".CSV" -> ".csv"
      [] ext = ".XLSX" -> ".xlsx"
      [] OTHER -> ext

\* type=['csv', 'xlsx'] (514): the uploader compares the extension without
\* regard to case, so data.CSV is let through and data.txt is refused.
AcceptedByUploader(f) == Lower(f.name.ext) \in {".csv", ".xlsx"}

\* The user uploads a file the uploader accepts. The script runs on it from
\* its first line.
Upload(f) ==
    /\ EventTaken
    /\ AcceptedByUploader(f)
    /\ uploaded_file' = f
    /\ StartRun

\* The user touches a widget: the script runs again, from its first line,
\* on the same file.
Rerun ==
    /\ EventTaken
    /\ uploaded_file # None
    /\ UNCHANGED uploaded_file
    /\ StartRun

\* Variant: the run without a file sets data_loaded back to False.
RemoveFile_ResetsFlag ==
    /\ EventTaken
    /\ uploaded_file # None
    /\ uploaded_file' = None
    /\ view' = Welcome
    /\ errors' = <<>>
    /\ main_df' = None
    /\ prep_info' = None
    /\ ret' = None
    /\ df' = None
    /\ original_shape' = None
    /\ parser' = "none"
    /\ raised' = ""
    /\ data_loaded' = FALSE
    /\ pc' = "idle"
    /\ UNCHANGED <<cache, calls>>

\* The user removes the file: the run takes the else branch (1350).
RemoveFile ==
    /\ EventTaken
    /\ uploaded_file # None
    /\ uploaded_file' = None
    /\ view' = Welcome
    /\ errors' = <<>>
    /\ main_df' = None
    /\ prep_info' = None
    /\ ret' = None
    /\ df' = None
    /\ original_shape' = None
    /\ parser' = "none"
    /\ raised' = ""
    /\ pc' = "idle"
    /\ UNCHANGED <<data_loaded, cache, calls>>

----------------------------------------------------------------------------
(* load_and_preprocess_data (lines 523-590) *)

\* The call ends: the decorator stores the value and the displayed elements.
Returns(value, msgs) ==
    /\ ret' = value
    /\ errors' = errors \o msgs
    /\ cache' = CacheStore(cache, uploaded_file, value, msgs)
    /\ calls' = calls \cup {[file |-> uploaded_file, ret |-> value]}
    /\ pc' = "returned"

\* Variant: the handler returns the table as far as it was cleaned.
Except_PartialTable(r) ==
    /\ Returns([df |-> df, prep_info |-> None],
               <<[prefix |-> "Error loading data: ", text |-> r.text]>>)
    /\ raised' = r.exc
    /\ df' = None

\* Lines 588-590: st.error with the exception's text, return None, None.
Except(r) ==
    /\ Returns(NoResult, <<[prefix |-> "Error loading data: ", text |-> r.text]>>)
    /\ raised' = r.exc
    /\ df' = None

\* A cached call returns the stored value and replays its elements.
CacheHit ==
    /\ pc = "call"
    /\ IsCached(cache, uploaded_file)
    /\ ret' = CachedEntry(cache, uploaded_file).value
    /\ errors' = errors \o CachedEntry(cache, uploaded_file).msgs
    /\ calls' = calls \cup {[file |-> uploaded_file, ret |-> ret']}
    /\ pc' = "returned"
    /\ UNCHANGED <<uploaded_file, data_loaded, cache, df, original_shape,
                   main_df, prep_info, view, parser, raised>>

CacheMiss ==
    /\ pc = "call"
    /\ ~ IsCached(cache, uploaded_file)
    /\ pc' = "read"
    /\ UNCHANGED <<uploaded_file, data_loaded, cache, df, original_shape, ret,
                   errors, main_df, prep_info, view, parser, raised, calls>>

\* A step of the body that cannot raise: df = step(df).
Step(at, frame, next) ==
    /\ pc = at
    /\ df' = frame
    /\ pc' = next
    /\ UNCHANGED <<uploaded_file, data_loaded, cache, original_shape, ret,
                   errors, main_df, prep_info, view, parser, raised, calls>>

\* A step of the body that can raise.
StepOrRaise(at, r, next) ==
    /\ pc = at
    /\ IF r.ok
       THEN /\ df' = r.frame
            /\ pc' = next
            /\ UNCHANGED <<ret, errors, cache, calls, raised>>
       ELSE Except(r)
    /\ UNCHANGED <<uploaded_file, data_loaded, original_shape, main_df,
                   prep_info, view, parser>>

\* Lines 527-534
Parse ==
    /\ pc = "read"
    /\ parser' = ParserFor(uploaded_file)
    /\ LET r == ReadFile(uploaded_file)
       IN  IF r.ok
           THEN /\ df' = r.frame
                /\ original_shape' = Shape(r.frame)
                /\ pc' = "dates"
                /\ UNCHANGED <<ret, errors, cache, calls, raised>>
           ELSE /\ Except(r)
                /\ UNCHANGED original_shape
    /\ UNCHANGED <<uploaded_file, data_loaded, main_df, prep_info, view>>

\* Lines 536-540
DateCoercion == Step("dates", ConvertDates(df, 1), "future")

\* Lines 542-546
FutureDateFilter == Step("future", RemoveFutureDates(df), "dedup")

\* Variant: the numeric coercion is done before the duplicates are dropped.
Deduplicate_AfterCoercion ==
    Step("dedup", drop_duplicates(ConvertNumeric(df, 1)), "name")

\* Lines 548-549
Deduplicate == Step("dedup", drop_duplicates(df), "name")

\* Lines 551-552
RequireFilmName == StepOrRaise("name", dropna(df, <<"Film_Name">>), "numeric")

\* Lines 554-558
NumericCoercion == Step("numeric", ConvertNumeric(df, 1), "required")

\* Variant: a table left without rows is rejected.
RequireNumeric_RejectsEmpty ==
    StepOrRaise("required",
                IF Len(df.rows) = 0 THEN Raise("ValueError", "No data")
                ELSE dropna(df, numeric_cols),
                "features")

\* Lines 560-561
RequireNumeric == StepOrRaise("required", dropna(df, numeric_cols), "features")

\* Lines 563-576
DeriveFeatures == Step("features", CreateFeatures(df), "summary")

\* Lines 578-586
Summarize ==
    /\ pc = "summary"
    /\ Returns([df |-> df, prep_info |-> PreprocessingInfo(original_shape, df)], <<>>)
    /\ UNCHANGED <<uploaded_file, data_loaded, df, original_shape, main_df,
                   prep_info, view, parser, raised>>

Body ==
    \/ Parse
    \/ DateCoercion
    \/ FutureDateFilter
    \/ Deduplicate
    \/ RequireFilmName
    \/ NumericCoercion
    \/ RequireNumeric
    \/ DeriveFeatures
    \/ Summarize

\* The st.error element of the handler (589).
ErrorElement(text) == [prefix |-> "Error loading data: ", text |-> text]

\* Lines 523-590 as one function of the file: the value a run of the body
\* returns and the elements it displays.
LoadAndPreprocess(file) ==
    LET read == ReadFile(file)
        named == dropna(drop_duplicates(RemoveFutureDates(ConvertDates(read.frame, 1))),
                        <<"Film_Name">>)
        required == dropna(ConvertNumeric(named.frame, 1), numeric_cols)
        featured == CreateFeatures(required.frame)
    IN  IF ~ read.ok
        THEN [value |-> NoResult, msgs |-> <<ErrorElement(read.text)>>]
        ELSE IF ~ named.ok
        THEN [value |-> NoResult, msgs |-> <<ErrorElement(named.text)>>]
        ELSE IF ~ required.ok
        THEN [value |-> NoResult, msgs |-> <<ErrorElement(required.text)>>]
        ELSE [value |-> [df |-> featured,
                         prep_info |-> PreprocessingInfo(Shape(read.frame), featured)],
              msgs |-> <<>>]

----------------------------------------------------------------------------
(* The script after the call (lines 595-1348) *)

\* Variant: data_loaded is set outside the test for a table.
BindResult_AlwaysLoaded ==
    /\ pc = "returned"
    /\ main_df' = ret.df
    /\ prep_info' = ret.prep_info
    /\ data_loaded' = TRUE
    /\ pc' = (IF ret.df # None THEN "show_summary" ELSE "idle")
    /\ UNCHANGED <<uploaded_file, cache, df, original_shape, ret, errors,
                   view, parser, raised, calls>>

\* Lines 595-598: the result is bound; a table sets data_loaded, and with
\* no table the run ends with nothing but the error on the page.
BindResult ==
    /\ pc = "returned"
    /\ main_df' = ret.df
    /\ prep_info' = ret.prep_info
    /\ IF ret.df # None
       THEN data_loaded' = TRUE /\ pc' = "show_summary"
       ELSE UNCHANGED data_loaded /\ pc' = "idle"
    /\ UNCHANGED <<uploaded_file, cache, df, original_shape, ret, errors,
                   view, parser, raised, calls>>

\* Lines 600-606
ShowSummary ==
    /\ pc = "show_summary"
    /\ view' = [view EXCEPT !.summary = prep_info]
    /\ pc' = "tabs"
    /\ UNCHANGED <<uploaded_file, data_loaded, cache, df, original_shape, ret,
                   errors, main_df, prep_info, parser, raised, calls>>

\* Lines 645-1109: the tabs up to the quadrant analysis; they read the
\* table, and an exception they raise stops the script run.
RenderTabs ==
    /\ pc = "tabs"
    /\ view' = [view EXCEPT !.tabs = TRUE, !.exception = TabsException(main_df)]
    /\ pc' = (IF TabsException(main_df) = "" THEN "quadrant" ELSE "idle")
    /\ UNCHANGED <<uploaded_file, data_loaded, cache, df, original_shape, ret,
                   errors, main_df, prep_info, parser, raised, calls>>

\* Lines 1110-1116: the one statement of the script that writes to df.
QuadrantAnalysis ==
    /\ pc = "quadrant"
    /\ main_df' = AddQuadrant(main_df)
    /\ cache' = {[e EXCEPT !.value =
                     IF e.key = CacheKey(uploaded_file)
                     THEN ValueAfterCallerMutation(
                              e.value, [e.value EXCEPT !.df = main_df'])
                     ELSE e.value] : e \in cache}
    /\ pc' = "recommend"
    /\ UNCHANGED <<uploaded_file, data_loaded, df, original_shape, ret, errors,
                   prep_info, view, parser, raised, calls>>

\* Lines 1117-1322: the rest of tab 5 and tab 6.
Recommendations ==
    /\ pc = "recommend"
    /\ view' = [view EXCEPT !.exception = RecommendationsException(main_df)]
    /\ pc' = (IF RecommendationsException(main_df) = "" THEN "export" ELSE "idle")
    /\ UNCHANGED <<uploaded_file, data_loaded, cache, df, original_shape, ret,
                   errors, main_df, prep_info, parser, raised, calls>>

\* Lines 1323-1348: df.to_csv / df.to_excel of the script-level df.
Export ==
    /\ pc = "export"
    /\ view' = [view EXCEPT !.export = main_df]
    /\ pc' = "idle"
    /\ UNCHANGED <<uploaded_file, data_loaded, cache, df, original_shape, ret,
                   errors, main_df, prep_info, parser, raised, calls>>

\* Lines 593-1348 as one function of the file: the table and the summary
\* the script holds, the page and the errors at the end of a script run
\* that loads the file afresh.
RunPage(file) ==
    LET loaded == LoadAndPreprocess(file)
        table == loaded.value.df
        summary == loaded.value.prep_info
        shown == [Blank EXCEPT !.summary = summary, !.tabs = TRUE]
    IN  IF table = None
        THEN [table |-> None, summary |-> None, view |-> Blank, errors |-> loaded.msgs]
        ELSE IF TabsException(table) # ""
        THEN [table |-> table, summary |-> summary,
              view |-> [shown EXCEPT !.exception = TabsException(table)],
              errors |-> <<>>]
        ELSE IF RecommendationsException(AddQuadrant(table)) # ""
        THEN [table |-> AddQuadrant(table), summary |-> summary,
              view |-> [shown EXCEPT !.exception =
                                         RecommendationsException(AddQuadrant(table))],
              errors |-> <<>>]
        ELSE [table |-> AddQuadrant(table), summary |-> summary,
              view |-> [shown EXCEPT !.export = AddQuadrant(table)],
              errors |-> <<>>]

----------------------------------------------------------------------------
(* Specifications *)

\* A session: uploads, reruns and removals, between script runs or during
\* one.
Next ==
    \/ \E f \in SessionFiles : Upload(f)
    \/ Rerun
    \/ RemoveFile
    \/ CacheHit
    \/ CacheMiss
    \/ Body
    \/ BindResult
    \/ ShowSummary
    \/ RenderTabs
    \/ QuadrantAnalysis
    \/ Recommendations
    \/ Export

Spec == Init /\ [][Next]_vars

\* One call of the loader on each file of the model.
NextCall == CacheMiss \/ Body

SpecCall == InitCall /\ [][NextCall]_vars

\* One script run on each table that is rendered.
NextRun ==
    \/ CacheMiss
    \/ Body
    \/ BindResult
    \/ ShowSummary
    \/ RenderTabs
    \/ QuadrantAnalysis
    \/ Recommendations
    \/ Export

SpecRun == InitRun /\ [][NextRun]_vars

----------------------------------------------------------------------------
(* Properties *)

\* The call has returned a table.
Succeeded == pc = "returned" /\ ret.df # None

\* The call has returned without a table.
Failed == pc = "returned" /\ ret.df = None

\* A date cell whose year is 2026 or later.
IsFutureDate(v) == v.k = "date" /\ v.n \div 10000 >= 2026

\* The date columns a frame has.
DateColumnsOf(frame) == {c \in Range(date_columns) : HasColumn(frame, c)}

\* The index labels of a frame's rows.
Labels(frame) == {frame.rows[i].idx : i \in DOMAIN frame.rows}

\* C1: the future-date filtering step drops a row only when its
\* Release_Date or Viewing_Month holds a parsed date of year 2026 or later;
\* a row whose date is missing is not dropped by this step.
C1_FutureFilterDropsOnlyFutureDates ==
    [][pc = "future" =>
         \A i \in DOMAIN df.rows :
             df.rows[i].idx \notin Labels(df') =>
                 \E c \in DateColumnsOf(df) : IsFutureDate(df.rows[i].cells[c])]_vars

\* C2: no row of the returned table has a Release_Date or a Viewing_Month
\* whose year is 2026 or later.
C2_NoFutureDates ==
    Succeeded =>
        \A i \in DOMAIN ret.df.rows :
            \A c \in DateColumnsOf(ret.df) : ~ IsFutureDate(ret.df.rows[i].cells[c])

\* A table is returned, with a row kept, from an input that has a row with a
\* 2026 release date and a row with a 2027 viewing month.
C2_Witness ==
    /\ Succeeded
    /\ ret.prep_info.final_rows >= 1
    /\ uploaded_file.content.columns = AllColumns
    /\ \E i, j \in DOMAIN uploaded_file.content.rows :
          /\ uploaded_file.content.rows[i]["Release_Date"] = "2026-01-01"
          /\ uploaded_file.content.rows[j]["Viewing_Month"] = "2027-01-01"

\* C3: no two rows of the returned table are equal in every column.
C3_NoIdenticalRows ==
    Succeeded =>
        \A i, j \in DOMAIN ret.df.rows :
            i # j => ret.df.rows[i].cells # ret.df.rows[j].cells

\* C4: every row of the returned table has a non-null Film_Name and a
\* present, numeric Viewer_Rate and Number_of_Views.
C4_RequiredFieldsPresent ==
    Succeeded =>
        \A i \in DOMAIN ret.df.rows :
            /\ ~ isna(ret.df.rows[i].cells["Film_Name"])
            /\ ret.df.rows[i].cells["Viewer_Rate"].k = "num"
            /\ ret.df.rows[i].cells["Number_of_Views"].k = "num"

\* A table is returned, with a row kept, from an input that has a row with no
\* Film_Name, a row with an unparseable Viewer_Rate beside a good
\* Number_of_Views, or a row with an unparseable Number_of_Views.
C4_Witness ==
    /\ Succeeded
    /\ ret.prep_info.final_rows >= 1
    /\ \E i, j \in DOMAIN uploaded_file.content.rows :
          /\ uploaded_file.content.rows[i]["Film_Name"] = ""
          /\ uploaded_file.content.rows[j]["Viewer_Rate"] = "x"
          /\ uploaded_file.content.rows[j]["Number_of_Views"] = "1000"

\* C5: final_rows <= original_rows and removed_rows = original_rows -
\* final_rows, original_rows being the row count of the parsed input and
\* final_rows the row count of the returned table.
C5_RowCounts ==
    Succeeded =>
        /\ ret.prep_info.original_rows = Len(uploaded_file.content.rows)
        /\ ret.prep_info.final_rows = Len(ret.df.rows)
        /\ ret.prep_info.final_rows <= ret.prep_info.original_rows
        /\ ret.prep_info.removed_rows =
               ret.prep_info.original_rows - ret.prep_info.final_rows
        /\ ret.prep_info.removed_rows >= 0

\* A table is returned from which rows were removed, and rows were kept.
C5_Witness ==
    /\ Succeeded
    /\ ret.prep_info.removed_rows >= 2
    /\ ret.prep_info.final_rows >= 1

\* The exception a call on the file raises first, read off the input: the
\* parser's, else the missing Film_Name column, else the missing numeric
\* columns; "" when none.
ExpectedErrorText(file) ==
    LET byCsv == file.name.ext = ".csv"
        cols == Range(file.content.columns)
    IN  IF byCsv /\ file.content.kind # "csv" THEN "'utf-8' codec can't decode byte"
        ELSE IF byCsv /\ file.content.columns = <<>> THEN "No columns to parse from file"
        ELSE IF ~ byCsv /\ file.content.kind # "xlsx"
        THEN "Excel file format cannot be determined, you must specify an engine manually."
        ELSE IF "Film_Name" \notin cols THEN "['Film_Name']"
        ELSE IF {"Viewer_Rate", "Number_of_Views"} \cap cols = {}
        THEN "['Viewer_Rate', 'Number_of_Views']"
        ELSE IF "Viewer_Rate" \notin cols THEN "['Viewer_Rate']"
        ELSE IF "Number_of_Views" \notin cols THEN "['Number_of_Views']"
        ELSE ""

\* C6: when an exception is raised, exactly one error message carrying the
\* exception's text is reported and (None, None) is returned; the table and
\* the summary are absent together, never one without the other.
C6_FailureReportsOnceAndReturnsNothing ==
    pc = "returned" =>
        /\ (ret.df = None) = (ret.prep_info = None)
        /\ (raised # "" \/ ExpectedErrorText(uploaded_file) # "") =>
              /\ ret = NoResult
              /\ Len(errors) = 1
              /\ errors[1].prefix = "Error loading data: "
              /\ errors[1].text = ExpectedErrorText(uploaded_file)
              /\ raised # ""
        /\ raised = "" => (ret.df # None /\ errors = <<>>)

\* A call has failed while cleaning, after the table was parsed and partly
\* cleaned.
C6_Witness ==
    /\ Failed
    /\ raised = "KeyError"
    /\ Len(uploaded_file.content.rows) >= 1
    /\ original_shape # None

\* C7: the parser is chosen by the file's extension, read as the uploader
\* reads it: a csv file is handed to read_csv and an xlsx file to
\* read_excel; a file that is neither fails with the error kind
\* UnsupportedFormat and is handed to no parser.
C7_ParserChosenByExtension ==
    pc = "returned" =>
        CASE Lower(uploaded_file.name.ext) = ".csv" -> parser = "read_csv"
          [] Lower(uploaded_file.name.ext) = ".xlsx" -> parser = "read_excel"
          [] OTHER -> /\ Failed
                      /\ raised = "UnsupportedFormat"
                      /\ parser = "none"

\* The script run on an uploaded file has ended after a failed load.
RunEndedFailed == pc = "idle" /\ uploaded_file # None /\ ret # None /\ ret.df = None

\* C8: a failed load leaves data_loaded as it was before the upload, renders
\* no summary, tab or export and exposes no table.
C8_FailedLoadChangesNothing ==
    /\ [](RunEndedFailed =>
            /\ view.summary = None
            /\ view.tabs = FALSE
            /\ view.export = None
            /\ main_df = None
            /\ prep_info = None)
    /\ [][(ret' # None /\ ret'.df = None) => data_loaded' = data_loaded]_vars

\* A load has failed in a session in which an earlier load had succeeded.
C8_Witness == RunEndedFailed /\ data_loaded = TRUE

\* C9: any two calls of load_and_preprocess_data on the same file (name and
\* bytes) returned the same table and the same summary.
C9_SameInputSameResult ==
    \A a, b \in calls : a.file = b.file => a.ret = b.ret

\* A call on a file that was loaded and rendered before has returned a table
\* (the body did not run: the file went to no parser).
C9_Witness ==
    /\ Succeeded
    /\ parser = "none"
    /\ [file |-> uploaded_file, ret |-> ret] \in calls

\* C10: on the example the returned table is the one row A and
\* removed_rows = 3: one row removed by the future-date filter, one by
\* deduplication and one by the Film_Name filter.
C10_ExampleRemovals ==
    uploaded_file = ExampleFile =>
        /\ pc = "dedup" => Len(df.rows) = original_shape[1] - 1
        /\ pc = "name" => Len(df.rows) = original_shape[1] - 2
        /\ pc = "numeric" => Len(df.rows) = original_shape[1] - 3
        /\ pc = "returned" =>
              /\ ret.df # None
              /\ Len(ret.df.rows) = 1
              /\ ret.df.rows[1].cells["Film_Name"] = Str("A")
              /\ ret.prep_info.removed_rows = 3

\* The numbers of the column c of a frame, in tenths.
NumbersOf(frame, c) == [i \in DOMAIN frame.rows |-> frame.rows[i].cells[c].n]

\* The k-th smallest of the numbers vals, by counting.
KthSmallest(vals, k) ==
    CHOOSE v \in Range(vals) :
        /\ Cardinality({i \in DOMAIN vals : vals[i] < v}) < k
        /\ Cardinality({i \in DOMAIN vals : vals[i] <= v}) >= k

\* x is at least the median of vals: the middle number, or the mean of the
\* two middle numbers.
AtLeastMedian(x, vals) ==
    2 * x >= KthSmallest(vals, (Len(vals) + 1) \div 2)
                 + KthSmallest(vals, Len(vals) \div 2 + 1)

\* The label of the 2 x 2 split for a row with the given views and rating.
ExpectedQuadrant(views, rating, allViews, allRatings) ==
    CASE AtLeastMedian(views, allViews) /\ AtLeastMedian(rating, allRatings) ->
             "Star Performers"
      [] AtLeastMedian(views, allViews) /\ ~ AtLeastMedian(rating, allRatings) ->
             "High Views, Low Rating"
      [] ~ AtLeastMedian(views, allViews) /\ AtLeastMedian(rating, allRatings) ->
             "Hidden Gems"
      [] OTHER -> "Low Performance"

\* The quadrant analysis has run in the current script run.
QuadrantAssigned == pc \in {"recommend", "export"}

\* C11: once the quadrant analysis has run, every row of the table carries
\* the one label that the 2 x 2 split gives it: Number_of_Views and
\* Viewer_Rate are each compared with the median of their column over the
\* whole table, and a value equal to the median counts as >=; on the
\* example with medians 1000 and 4.0 the four rows get the four labels.
C11_QuadrantByMedians ==
    QuadrantAssigned =>
        /\ \A i \in DOMAIN main_df.rows :
              main_df.rows[i].cells["Quadrant"] =
                  Str(ExpectedQuadrant(main_df.rows[i].cells["Number_of_Views"].n,
                                       main_df.rows[i].cells["Viewer_Rate"].n,
                                       NumbersOf(main_df, "Number_of_Views"),
                                       NumbersOf(main_df, "Viewer_Rate")))
        /\ uploaded_file = QuadrantExampleFile =>
              Column(main_df, "Quadrant") =
                  <<Str("Star Performers"), Str("High Views, Low Rating"),
                    Str("Hidden Gems"), Str("Low Performance")>>

\* The quadrant analysis has run on a table of three rows with medians 1000
\* and 4: the row equal to both medians is a Star Performer, and the row
\* whose rating equals the median and whose views are below the median is
\* a Hidden Gem.
C11_Witness ==
    /\ QuadrantAssigned
    /\ NumbersOf(main_df, "Number_of_Views") = <<10000, 10000, 5000>>
    /\ NumbersOf(main_df, "Viewer_Rate") = <<40, 50, 40>>
    /\ Column(main_df, "Quadrant") =
           <<Str("Star Performers"), Str("Star Performers"), Str("Hidden Gems")>>

\* C12: the table offered for download is the table the pipeline returned:
\* the same rows and the same columns, as many columns as the summary's
\* final_cols says, and no added column.
C12_ExportIsCleanedTable ==
    view.export # None =>
        /\ view.export = ret.df
        /\ Len(view.export.columns) = prep_info.final_cols

\* The script run holds the table and the summary of a successful load.
TableBound ==
    /\ ret # None
    /\ ret.df # None
    /\ pc \in {"show_summary", "tabs", "quadrant", "recommend", "export", "idle"}

\* The rows of frame b are the rows of frame a, in order, with the values a
\* has in the columns cols.
SameRowsOn(a, b, cols) ==
    /\ Len(b.rows) = Len(a.rows)
    /\ \A i \in DOMAIN a.rows :
          /\ b.rows[i].idx = a.rows[i].idx
          /\ \A c \in cols : b.rows[i].cells[c] = a.rows[i].cells[c]

\* C18 as stated: after the pipeline has returned, the script's table has
\* the returned table's rows and its values in every column of the returned
\* table, the summary is the returned summary, the one change is the added
\* Quadrant column, and final_cols is the returned table's column count.
C18_RenderingOnlyAddsQuadrant ==
    TableBound =>
        /\ prep_info = ret.prep_info
        /\ prep_info.final_cols = Len(ret.df.columns)
        /\ SameRowsOn(ret.df, main_df, Range(ret.df.columns))
        /\ main_df.columns \in {ret.df.columns, Append(ret.df.columns, "Quadrant")}
        /\ pc = "export" => HasColumn(main_df, "Quadrant")

\* C18 amended: the same, except that when the returned table already has a
\* column named Quadrant (the input had one) the quadrant analysis adds no
\* column and overwrites that column's values with its labels; every other
\* column, the rows and the summary are unchanged, and final_cols counts
\* the returned table's columns.
C18_RenderingWritesOnlyQuadrant ==
    TableBound =>
        /\ prep_info = ret.prep_info
        /\ prep_info.final_cols = Len(ret.df.columns)
        /\ SameRowsOn(ret.df, main_df, Range(ret.df.columns) \ {"Quadrant"})
        /\ main_df.columns =
              (IF HasColumn(ret.df, "Quadrant") \/ ~ HasColumn(main_df, "Quadrant")
               THEN ret.df.columns
               ELSE Append(ret.df.columns, "Quadrant"))
        /\ pc = "export" =>
              /\ HasColumn(main_df, "Quadrant")
              /\ \A i \in DOMAIN main_df.rows :
                    main_df.rows[i].cells["Quadrant"].s \in
                        {"Star Performers", "High Views, Low Rating",
                         "Hidden Gems", "Low Performance"}

\* The quadrant analysis has added the Quadrant column to a returned table
\* of two or more rows that had none, one of them labelled Low Performance.
C18_Witness ==
    /\ TableBound
    /\ pc = "export"
    /\ Len(ret.df.rows) >= 2
    /\ ~ HasColumn(ret.df, "Quadrant")
    /\ Len(main_df.columns) = prep_info.final_cols + 1
    /\ \E i \in DOMAIN main_df.rows :
          main_df.rows[i].cells["Quadrant"] = Str("Low Performance")

\* The text of the input's row i in column c is present and is no number.
UnparseableNumber(file, i, c) ==
    /\ c \in Range(file.content.columns)
    /\ file.content.rows[i][c] \notin NaTexts \cup DOMAIN NumText

\* The input's row i holds a number in column c, a column of numbers.
ReadAsNumber(file, i, c) ==
    /\ ColumnIsNumeric(file.content, c)
    /\ file.content.rows[i][c] \in DOMAIN NumText

\* The date the input's row i has in column c: the date of its text, the
\* instant a number counts in nanoseconds from the epoch, and none for any
\* other text.
DateValue(file, i, c) ==
    IF file.content.rows[i][c] \in DOMAIN DateText
    THEN DateText[file.content.rows[i][c]]
    ELSE IF ReadAsNumber(file, i, c)
    THEN to_datetime(Num(NumText[file.content.rows[i][c]]))
    ELSE NA

\* The text of the input's row i in column c is present and is no date (a
\* number in a column of numbers is one).
UnparseableDate(file, i, c) ==
    /\ c \in Range(file.content.columns)
    /\ file.content.rows[i][c] \notin NaTexts \cup DOMAIN DateText
    /\ ~ ReadAsNumber(file, i, c)

\* C13: on a file that parses and has the required columns, an unparseable
\* value in Release_Date, Viewing_Month, Viewer_Rate or Number_of_Views
\* raises nothing and reports no error: after its coercion the value is
\* missing, the call returns a table and a summary, and no row whose
\* Viewer_Rate or Number_of_Views was unparseable is in the returned table.
C13_UnparseableBecomesMissing ==
    ExpectedErrorText(uploaded_file) = "" =>
        /\ raised = ""
        /\ errors = <<>>
        /\ pc = "future" =>
              \A i \in DOMAIN df.rows : \A c \in Range(date_columns) :
                  UnparseableDate(uploaded_file, df.rows[i].idx + 1, c) =>
                      df.rows[i].cells[c] = NA
        /\ pc = "required" =>
              \A i \in DOMAIN df.rows : \A c \in Range(numeric_cols) :
                  UnparseableNumber(uploaded_file, df.rows[i].idx + 1, c) =>
                      df.rows[i].cells[c] = NA
        /\ pc = "returned" =>
              /\ ret.df # None
              /\ ret.prep_info # None
              /\ \A i \in DOMAIN uploaded_file.content.rows :
                    (\E c \in Range(numeric_cols) :
                         UnparseableNumber(uploaded_file, i, c)) =>
                        (i - 1) \notin Labels(ret.df)

\* A table is returned, with a row kept, from an input that has a row with an
\* unparseable Viewer_Rate and a row with an unparseable Release_Date.
C13_Witness ==
    /\ Succeeded
    /\ ret.prep_info.final_rows >= 1
    /\ \E i, j \in DOMAIN uploaded_file.content.rows :
          /\ UnparseableNumber(uploaded_file, i, "Viewer_Rate")
          /\ UnparseableDate(uploaded_file, j, "Release_Date")

\* The columns the specification's data model names for a raw record.
RecognizedColumns ==
    {"Film_Name", "Category", "Language", "Release_Date", "Viewing_Month",
     "Viewer_Rate", "Number_of_Views"}

\* The names of the fields lines 565-576 assign.
DerivedFields ==
    {"Release_Year", "Release_Month", "Release_Month_Name", "Viewing_Year",
     "Viewing_Month_Num", "Viewing_Month_Name", "Engagement_Score"}

\* The fields derived from a date column.
FieldsOf(c) ==
    IF c = "Release_Date"
    THEN {"Release_Year", "Release_Month", "Release_Month_Name"}
    ELSE {"Viewing_Year", "Viewing_Month_Num", "Viewing_Month_Name"}

\* The fields a successful call assigns on the input: Engagement_Score, and
\* the three fields of each date column the input has.
AssignedFields(file) ==
    {"Engagement_Score"}
        \cup UNION {FieldsOf(c) : c \in Range(date_columns) \cap Range(file.content.columns)}

\* The score of a rate and a number of views, both in tenths: the product
\* rate * ln(1 + views) above views = -1; at -1 the logarithm is -infinity
\* and the product is -infinity for a rate above 0, +infinity for a rate
\* below 0 and no number for the rate 0; below -1 it is no number.
ExpectedScore(rate, views) ==
    IF views > -10 THEN Eng(rate, views)
    ELSE IF views = -10 /\ rate > 0 THEN Inf(-1)
    ELSE IF views = -10 /\ rate < 0 THEN Inf(1)
    ELSE NA

\* The value the field f has in a returned row with these cells.
DerivedValue(f, cells) ==
    CASE f = "Release_Year" -> dt_year(cells["Release_Date"])
      [] f = "Release_Month" -> dt_month(cells["Release_Date"])
      [] f = "Release_Month_Name" -> dt_month_name(cells["Release_Date"])
      [] f = "Viewing_Year" -> dt_year(cells["Viewing_Month"])
      [] f = "Viewing_Month_Num" -> dt_month(cells["Viewing_Month"])
      [] f = "Viewing_Month_Name" -> dt_month_name(cells["Viewing_Month"])
      [] OTHER -> ExpectedScore(cells["Viewer_Rate"].n, cells["Number_of_Views"].n)

\* The columns of the input that are not recognized.
UnrecognizedColumns(file) == Range(file.content.columns) \ RecognizedColumns

\* The column c of the parsed input is in the returned table under its name
\* and at its position, and every returned row has in it the value of the
\* input row it comes from.
PassedThrough(file, result, c) ==
    /\ \E p \in DOMAIN file.content.columns :
          /\ file.content.columns[p] = c
          /\ p \in DOMAIN result.columns
          /\ result.columns[p] = c
    /\ LET parsed == TextParser(file.content)
       IN  \A i \in DOMAIN result.rows :
               result.rows[i].cells[c] = parsed.rows[result.rows[i].idx + 1].cells[c]

\* C14 as stated: every unrecognized column of the input is passed through
\* to the returned table unchanged, none dropped or renamed.
C14_UnrecognizedColumnsPassedThrough ==
    Succeeded =>
        \A c \in UnrecognizedColumns(uploaded_file) :
            PassedThrough(uploaded_file, ret.df, c)

\* C14 amended: every unrecognized column of the input is passed through
\* unchanged unless feature derivation assigns a field of its name on this
\* input (Engagement_Score always, the three release fields when the input
\* has Release_Date, the three viewing fields when it has Viewing_Month);
\* such a column keeps its name and position and holds the derived value in
\* every row. No input column is dropped, renamed or moved.
C14_UnassignedColumnsPassedThrough ==
    Succeeded =>
        /\ \A c \in UnrecognizedColumns(uploaded_file) \ AssignedFields(uploaded_file) :
              PassedThrough(uploaded_file, ret.df, c)
        /\ SubSeq(ret.df.columns, 1, Len(uploaded_file.content.columns)) =
               uploaded_file.content.columns
        /\ \A c \in UnrecognizedColumns(uploaded_file) \cap AssignedFields(uploaded_file) :
              \A i \in DOMAIN ret.df.rows :
                  ret.df.rows[i].cells[c] = DerivedValue(c, ret.df.rows[i].cells)

\* A table is returned from an input that has Release_Date, no
\* Viewing_Month, and columns named Notes, Release_Year, Viewing_Year and
\* Engagement_Score: a row is removed, and a kept row has its note and its
\* Viewing_Year as in the input, the year of its date as Release_Year and
\* the derived score.
C14_Witness ==
    /\ Succeeded
    /\ "Release_Date" \in Range(uploaded_file.content.columns)
    /\ "Viewing_Month" \notin Range(uploaded_file.content.columns)
    /\ {"Notes", "Release_Year", "Viewing_Year", "Engagement_Score"}
           \subseteq UnrecognizedColumns(uploaded_file)
    /\ ret.prep_info.removed_rows >= 1
    /\ \E i \in DOMAIN ret.df.rows :
          /\ uploaded_file.content.rows[ret.df.rows[i].idx + 1]["Release_Year"] = "9"
          /\ ret.df.rows[i].cells["Notes"] = Str("n1")
          /\ ret.df.rows[i].cells["Viewing_Year"] = Num(90)
          /\ ret.df.rows[i].cells["Release_Year"] = Num(20250)
          /\ ret.df.rows[i].cells["Engagement_Score"] = Eng(40, 10000)

\* C15 as stated: every row of the returned table has an Engagement_Score,
\* the real number Viewer_Rate * ln(1 + Number_of_Views) of the row's own
\* coerced Viewer_Rate and Number_of_Views.
C15_EngagementDefinedForEveryRow ==
    Succeeded =>
        /\ HasColumn(ret.df, "Engagement_Score")
        /\ \A i \in DOMAIN ret.df.rows :
              ret.df.rows[i].cells["Engagement_Score"] =
                  Eng(ret.df.rows[i].cells["Viewer_Rate"].n,
                      ret.df.rows[i].cells["Number_of_Views"].n)

\* C15 amended: every row of the returned table whose Number_of_Views is
\* greater than -1 has as Engagement_Score the product Viewer_Rate *
\* ln(1 + Number_of_Views) of the row's own coerced values; rows with a
\* Number_of_Views of -1 or less are kept, and their score is no real
\* number: at -1 it is -infinity for a Viewer_Rate above 0, +infinity for
\* one below 0 and missing for the rate 0, and below -1 it is missing.
C15_EngagementWhereLogDefined ==
    Succeeded =>
        /\ HasColumn(ret.df, "Engagement_Score")
        /\ \A i \in DOMAIN ret.df.rows :
              LET rate == ret.df.rows[i].cells["Viewer_Rate"].n
                  views == ret.df.rows[i].cells["Number_of_Views"].n
                  score == ret.df.rows[i].cells["Engagement_Score"]
              IN  /\ ret.df.rows[i].cells["Viewer_Rate"].k = "num"
                  /\ ret.df.rows[i].cells["Number_of_Views"].k = "num"
                  /\ views > -10 => score = Eng(rate, views)
                  /\ (views = -10 /\ rate > 0) => score = Inf(-1)
                  /\ (views = -10 /\ rate < 0) => score = Inf(1)
                  /\ (views = -10 /\ rate = 0) => isna(score)
                  /\ views < -10 => isna(score)

\* A table is returned with the score 4 * ln(1 + 1000) in the row that has
\* these values, -infinity, +infinity and a missing score in the rows with
\* -1 views and the rates 4, -5 and 0, and a missing score in the row with
\* -5 views.
C15_Witness ==
    /\ Succeeded
    /\ \E a, b, c, d, e \in DOMAIN ret.df.rows :
          /\ ret.df.rows[a].cells["Number_of_Views"] = Num(10000)
          /\ ret.df.rows[a].cells["Engagement_Score"] = Eng(40, 10000)
          /\ ret.df.rows[b].cells["Number_of_Views"] = Num(-10)
          /\ ret.df.rows[b].cells["Viewer_Rate"] = Num(40)
          /\ ret.df.rows[b].cells["Engagement_Score"] = Inf(-1)
          /\ ret.df.rows[c].cells["Number_of_Views"] = Num(-10)
          /\ ret.df.rows[c].cells["Viewer_Rate"] = Num(-50)
          /\ ret.df.rows[c].cells["Engagement_Score"] = Inf(1)
          /\ ret.df.rows[d].cells["Number_of_Views"] = Num(-10)
          /\ ret.df.rows[d].cells["Viewer_Rate"] = Num(0)
          /\ isna(ret.df.rows[d].cells["Engagement_Score"])
          /\ ret.df.rows[e].cells["Number_of_Views"] = Num(-50)
          /\ isna(ret.df.rows[e].cells["Engagement_Score"])

\* The positions of the function body in the order of the specification's
\* steps: parse, date coercion, future-date filtering, deduplication,
\* missing-Film_Name filtering, numeric coercion, numeric-required
\* filtering, feature derivation, summary computation, return.
StepOrder ==
    <<"read", "dates", "future", "dedup", "name", "numeric", "required",
      "features", "summary", "returned">>

\* No two rows of the frame are equal in every column.
NoDuplicates(frame) ==
    \A i, j \in DOMAIN frame.rows :
        i # j => frame.rows[i].cells # frame.rows[j].cells

\* C16: the body goes through its steps in the order parse, date coercion,
\* future-date filtering, deduplication, missing-Film_Name filtering,
\* numeric coercion, numeric-required filtering, feature derivation,
\* summary computation, each step leading to the next or, when it raises,
\* to the failed return.  Deduplication finds the date columns coerced and
\* leaves every cell of the rows it keeps as it found it (the numeric
\* columns are not yet coerced); numeric coercion finds a table without
\* duplicates; the summary counts the columns and rows of the table that
\* has the derived fields, which is the table returned.
C16_StepsInOrder ==
    [][pc' # pc =>
         /\ \/ pc = "call" /\ pc' = "read"
            \/ \E k \in 1..(Len(StepOrder) - 1) :
                   pc = StepOrder[k] /\ pc' = StepOrder[k + 1]
            \/ pc \in {"read", "name", "required"} /\ pc' = "returned" /\ ret'.df = None
         /\ pc = "dedup" =>
               /\ \A i \in DOMAIN df.rows : \A c \in DateColumnsOf(df) :
                     df.rows[i].cells[c].k \in {"date", "na"}
               /\ \A i \in DOMAIN df'.rows : df'.rows[i] \in Range(df.rows)
         /\ pc = "numeric" => NoDuplicates(df)
         /\ pc = "summary" =>
               /\ HasColumn(df, "Engagement_Score")
               /\ ret'.df = df
               /\ ret'.prep_info.final_cols = Len(df.columns)
               /\ ret'.prep_info.final_rows = Len(df.rows)]_vars

\* A table is returned in which the order of the steps shows: two rows that
\* the numeric coercion made equal after deduplication had run are both in
\* it, and final_cols counts the derived Engagement_Score column.
C16_Witness ==
    /\ Succeeded
    /\ ~ NoDuplicates(ret.df)
    /\ HasColumn(ret.df, "Engagement_Score")
    /\ ret.prep_info.final_cols = Len(uploaded_file.content.columns) + 1

\* C17: when deduplication runs, of the rows that are equal in every column
\* exactly the earliest survives: a row is in the table after the step if
\* and only if no row before it is equal to it, and the rows that survive
\* keep their order.
C17_DeduplicationKeepsFirst ==
    [][pc = "dedup" =>
         /\ \A i \in DOMAIN df.rows :
               (df.rows[i].idx \in Labels(df')) =
                   (\A j \in DOMAIN df.rows :
                        df.rows[j].cells = df.rows[i].cells => j >= i)
         /\ \A i \in DOMAIN df'.rows : df'.rows[i] \in Range(df.rows)
         /\ \A i, j \in DOMAIN df'.rows : i < j => df'.rows[i].idx < df'.rows[j].idx]_vars

\* Deduplication has run on an input whose first and third rows are equal
\* and whose second row differs: the rows with labels 0 and 1 are left.
C17_Witness ==
    /\ pc = "name"
    /\ Len(uploaded_file.content.rows) = 3
    /\ uploaded_file.content.rows[1] = uploaded_file.content.rows[3]
    /\ uploaded_file.content.rows[1] # uploaded_file.content.rows[2]
    /\ Labels(df) = {0, 1}

\* C19: in a session of uploads, re-runs and removals, every call of the
\* memoized function returns the value, and shows the elements, that a
\* fresh run of the body on the uploaded file gives; a table returned for
\* an input without a Quadrant column has no Quadrant column, whatever was
\* rendered before; and a call on a file that was loaded before in the
\* session never enters the body: it returns from the store, which it
\* leaves as it is, unless an event stops the run first.
C19_MemoizedReturnsFreshResult ==
    /\ [](pc = "returned" =>
            /\ ret = LoadAndPreprocess(uploaded_file).value
            /\ errors = LoadAndPreprocess(uploaded_file).msgs
            /\ (ret.df # None /\ ~ Contains(uploaded_file.content.columns, "Quadrant"))
                   => ~ HasColumn(ret.df, "Quadrant"))
    /\ [][(pc = "call" /\ \E c \in calls : c.file = uploaded_file) =>
              /\ pc' \in {"returned", "call", "idle"}
              /\ pc' = "returned" => (uploaded_file' = uploaded_file /\ parser' = "none")
              /\ cache' = cache]_vars

\* A call has returned a table from the cache (the body did not run), for a
\* file whose earlier script run went through the quadrant analysis; the
\* table has no Quadrant column.
C19_Witness ==
    /\ Succeeded
    /\ parser = "none"
    /\ TabsException(ret.df) = ""
    /\ ~ HasColumn(ret.df, "Quadrant")
    /\ \E e \in cache : e.key = CacheKey(uploaded_file) /\ e.value = ret

\* C20: at the end of every script run of the session, the table and the
\* summary the script holds, the page (summary, tabs, download, exception)
\* and the errors are those of a run on the uploaded file alone, whatever
\* was uploaded before and whether it loaded or failed.
C20_PageDependsOnlyOnCurrentFile ==
    (pc = "idle" /\ uploaded_file # None) =>
        [table |-> main_df, summary |-> prep_info, view |-> view, errors |-> errors] =
            RunPage(uploaded_file)

\* The run on the uploaded file has ended with its download rendered, in a
\* session in which a different file was loaded with a table and another
\* file failed to load.
C20_Witness ==
    /\ pc = "idle"
    /\ uploaded_file # None
    /\ view.export # None
    /\ \E a, b \in calls :
          /\ a.file # uploaded_file
          /\ a.ret.df # None
          /\ b.file # uploaded_file
          /\ b.ret.df = None

\* The positions of a script run inside the call of the loader.
InCall ==
    pc \in {"call", "read", "dates", "future", "dedup", "name", "numeric",
            "required", "features", "summary"}

\* The page shows a summary, the tabs or a download.
SomethingShown == view.summary # None \/ view.tabs \/ view.export # None

\* C21: while the call of the loader runs nothing is on the page; a summary,
\* the tabs or a download are on the page only after the call has returned
\* a table; the body is entered only from the call of the script run; and
\* once entered its steps run one after the other on the same file, no
\* event being taken before its next Streamlit call.
C21_DisplayOnlyAfterTableReturned ==
    /\ [](InCall => view = Blank)
    /\ [](pc = "returned" => view = Blank)
    /\ [](SomethingShown =>
            /\ ret # None
            /\ ret.df # None
            /\ pc \in {"tabs", "quadrant", "recommend", "export", "idle"})
    /\ [][/\ (InCall /\ ~ AtStreamlitCall) =>
                (uploaded_file' = uploaded_file /\ pc' \notin {"call", "idle"})
          /\ (pc' = "read" /\ pc # "read") => pc = "call"
          /\ (~ SomethingShown /\ SomethingShown') => pc = "show_summary"]_vars

\* A script run in which the body ran (the file went to a parser) has ended
\* with the summary, the tabs and the download on the page.
C21_Witness ==
    /\ pc = "idle"
    /\ parser # "none"
    /\ view.summary # None
    /\ view.tabs
    /\ view.export # None

\* The input's row i has a name, a parseable Viewer_Rate and Number_of_Views
\* and, in each date column of the input, a parseable date before 2026.
CleanInputRow(file, i) ==
    /\ file.content.rows[i]["Film_Name"] \notin NaTexts
    /\ \A c \in Range(numeric_cols) : file.content.rows[i][c] \in DOMAIN NumText
    /\ \A c \in Range(date_columns) \cap Range(file.content.columns) :
          /\ DateValue(file, i, c) # NA
          /\ ~ IsFutureDate(DateValue(file, i, c))

\* The input's row i is, as parsed, equal in every column to an earlier row.
DuplicateOfEarlier(file, i) ==
    LET parsed == TextParser(file.content)
    IN  \E j \in 1..(i - 1) : parsed.rows[j].cells = parsed.rows[i].cells

\* The input's row i is equal to an earlier row in every column once the
\* cells are parsed and the date columns are coerced to dates.
DuplicateAfterDateCoercion(file, i) ==
    LET parsed == TextParser(file.content)
    IN  \E j \in 1..(i - 1) :
            \A c \in Range(file.content.columns) :
                IF c \in Range(date_columns)
                THEN DateValue(file, j, c) = DateValue(file, i, c)
                ELSE parsed.rows[j].cells[c] = parsed.rows[i].cells[c]

\* C22 as stated: every row of the input that has a Film_Name, a parseable
\* Viewer_Rate and Number_of_Views and, in each date column that exists, a
\* parseable date of a year before 2026 is in the returned table, unless it
\* is equal in every column to an earlier row of the input.
C22_CleanRowsAreKept ==
    Succeeded =>
        \A i \in DOMAIN uploaded_file.content.rows :
            (CleanInputRow(uploaded_file, i) /\ ~ DuplicateOfEarlier(uploaded_file, i))
                => (i - 1) \in Labels(ret.df)

\* C22 amended: such a row is in the returned table unless an earlier row of
\* the input is equal to it in every column once the date columns are
\* coerced to dates, and then it is not in the table.
C22_CleanRowsKeptUnlessEqualAfterDates ==
    Succeeded =>
        \A i \in DOMAIN uploaded_file.content.rows :
            CleanInputRow(uploaded_file, i) =>
                ((i - 1) \in Labels(ret.df)
                    <=> ~ DuplicateAfterDateCoercion(uploaded_file, i))

\* A table is returned that holds the first of two clean rows of the input
\* which differ as parsed, in Release_Date (4 and 4.5), and are equal once
\* the dates are coerced; the second row was removed.
C22_Witness ==
    /\ Succeeded
    /\ Len(uploaded_file.content.rows) = 2
    /\ \A i \in DOMAIN uploaded_file.content.rows : CleanInputRow(uploaded_file, i)
    /\ ~ DuplicateOfEarlier(uploaded_file, 2)
    /\ DuplicateAfterDateCoercion(uploaded_file, 2)
    /\ Labels(ret.df) = {0}

\* The columns every load needs.
RequiredColumns == {"Film_Name", "Viewer_Rate", "Number_of_Views"}

\* The exceptions the parsers raise.
ParserExceptions == {"UnicodeDecodeError", "EmptyDataError", "ValueError"}

\* C23: a call on an input that lacks Film_Name, Viewer_Rate or
\* Number_of_Views returns (None, None), with a KeyError when the file was
\* parsed; a call on a parsed input that has the three columns returns a
\* table whether or not it has Release_Date and Viewing_Month, and the
\* table has the derived fields of exactly the date columns the input has:
\* the fields of a date column the input lacks are not assigned (a column
\* of the input that bears such a name is passed through as it is).
C23_RequiredAndOptionalColumns ==
    pc = "returned" =>
        /\ ~ (RequiredColumns \subseteq Range(uploaded_file.content.columns)) =>
              /\ ret = NoResult
              /\ raised \in ParserExceptions \cup {"KeyError"}
        /\ (RequiredColumns \subseteq Range(uploaded_file.content.columns)
                /\ raised \notin ParserExceptions) =>
              /\ ret.df # None
              /\ raised = ""
              /\ \A c \in Range(date_columns) :
                    IF c \in Range(uploaded_file.content.columns)
                    THEN FieldsOf(c) \subseteq Range(ret.df.columns)
                    ELSE /\ c \notin Range(ret.df.columns)
                         /\ \A f \in FieldsOf(c) :
                               IF f \in Range(uploaded_file.content.columns)
                               THEN PassedThrough(uploaded_file, ret.df, f)
                               ELSE f \notin Range(ret.df.columns)

\* A table with a row is returned from an input that has Release_Date and
\* no Viewing_Month: it has the release fields and no viewing field.
C23_Witness ==
    /\ Succeeded
    /\ Len(ret.df.rows) >= 1
    /\ HasColumn(ret.df, "Release_Year")
    /\ ~ HasColumn(ret.df, "Viewing_Month")
    /\ ~ HasColumn(ret.df, "Viewing_Year")

\* C24: in the returned table every date column the input has holds, in
\* every row, a date of a year before 2026, and the three fields derived
\* from it are the year, the month number and the month name of that date.
C24_DatesPresentWhereColumnExists ==
    Succeeded =>
        \A c \in Range(date_columns) \cap Range(uploaded_file.content.columns) :
            \A i \in DOMAIN ret.df.rows :
                LET cells == ret.df.rows[i].cells
                    year == IF c = "Release_Date" THEN "Release_Year" ELSE "Viewing_Year"
                    month == IF c = "Release_Date" THEN "Release_Month"
                             ELSE "Viewing_Month_Num"
                    name == IF c = "Release_Date" THEN "Release_Month_Name"
                            ELSE "Viewing_Month_Name"
                IN  /\ cells[c].k = "date"
                    /\ cells[c].n \div 10000 < 2026
                    /\ cells[year] = Num((cells[c].n \div 10000) * 10)
                    /\ cells[month].k = "num"
                    /\ cells[month].n \div 10 \in 1..12
                    /\ cells[month].n = ((cells[c].n \div 100) % 100) * 10
                    /\ cells[name] = Str(MonthNames[cells[month].n \div 10])

\* A table with a row is returned from an input that has both date columns,
\* a row with no Release_Date and a row with an unparseable Release_Date.
C24_Witness ==
    /\ Succeeded
    /\ Len(ret.df.rows) >= 1
    /\ DateColumnsOf(ret.df) = {"Release_Date", "Viewing_Month"}
    /\ \E i, j \in DOMAIN uploaded_file.content.rows :
          /\ uploaded_file.content.rows[i]["Release_Date"] = ""
          /\ uploaded_file.content.rows[j]["Release_Date"] = "bad"

\* 1 when the input has the column c, else 0.
Has01(file, c) == IF c \in Range(file.content.columns) THEN 1 ELSE 0

\* C25: on a returned table whose input has no column named like a derived
\* field, original_cols is the input's column count and final_cols =
\* original_cols + 1 + 3 for Release_Date if it exists + 3 for
\* Viewing_Month if it exists; and no step of the body removes or moves a
\* column: the columns before a step are the first columns after it.
C25_ColumnCount ==
    /\ [](Succeeded /\ Range(uploaded_file.content.columns) \cap DerivedFields = {} =>
            /\ ret.prep_info.original_cols = Len(uploaded_file.content.columns)
            /\ ret.prep_info.final_cols = Len(ret.df.columns)
            /\ ret.prep_info.final_cols =
                   ret.prep_info.original_cols + 1
                       + 3 * Has01(uploaded_file, "Release_Date")
                       + 3 * Has01(uploaded_file, "Viewing_Month"))
    /\ [][(df # None /\ df' # None) =>
              /\ Len(df'.columns) >= Len(df.columns)
              /\ SubSeq(df'.columns, 1, Len(df.columns)) = df.columns]_vars

\* A table with a row is returned from an input of five columns with both
\* date columns: final_cols is 12.
C25_Witness ==
    /\ Succeeded
    /\ Len(ret.df.rows) >= 1
    /\ ret.prep_info.original_cols = 5
    /\ ret.prep_info.final_cols = 12

\* C26: a call on a file that parses and has the required columns, none of
\* whose rows is clean (a file without rows included), returns an empty
\* table with its columns and a summary; and whenever the returned table is
\* empty the summary has final_rows = 0 and removed_rows = original_rows,
\* the row count of the input.
C26_EmptyResultIsSuccess ==
    (pc = "returned" /\ ExpectedErrorText(uploaded_file) = "") =>
        /\ (\A i \in DOMAIN uploaded_file.content.rows :
                ~ CleanInputRow(uploaded_file, i)) =>
              /\ ret.df # None
              /\ ret.df.rows = <<>>
              /\ errors = <<>>
        /\ (ret.df # None /\ ret.df.rows = <<>>) =>
              /\ ret.prep_info # None
              /\ ret.df.columns # <<>>
              /\ ret.prep_info.final_rows = 0
              /\ ret.prep_info.original_rows = Len(uploaded_file.content.rows)
              /\ ret.prep_info.removed_rows = ret.prep_info.original_rows

\* An empty table is returned from an input of three rows, removed for a
\* missing Film_Name, an unparseable Viewer_Rate and a 2026 release date.
C26_Witness ==
    /\ Succeeded
    /\ ret.df.rows = <<>>
    /\ ret.prep_info.removed_rows = 3
    /\ uploaded_file.content.columns = AllColumns
    /\ \E i, j, k \in DOMAIN uploaded_file.content.rows :
          /\ uploaded_file.content.rows[i]["Film_Name"] = ""
          /\ uploaded_file.content.rows[j]["Viewer_Rate"] = "x"
          /\ uploaded_file.content.rows[k]["Release_Date"] = "2026-01-01"

\* C27: data_loaded is False when the session starts; a step sets it to
\* True only when it binds the result of a call that returned a table, and
\* every step that binds a table does; no step sets it back to False.
C27_DataLoadedMonotone ==
    /\ data_loaded = FALSE
    /\ [][/\ data_loaded => data_loaded'
          /\ (~ data_loaded /\ data_loaded') => (pc = "returned" /\ ret.df # None)
          /\ (pc = "returned" /\ ret.df # None /\ pc' = "show_summary") => data_loaded']_vars

\* The file has been removed after a load that returned a table: the
\* welcome screen is shown and data_loaded is still True.
C27_Witness ==
    /\ uploaded_file = None
    /\ view = Welcome
    /\ data_loaded = TRUE

\* The returned row holds the values of the input's row i: its Film_Name,
\* the numbers of its Viewer_Rate and Number_of_Views texts, and the dates
\* of its date texts.
ComesFromInputRow(file, cells, i) ==
    /\ cells["Film_Name"] = Str(file.content.rows[i]["Film_Name"])
    /\ \A c \in Range(numeric_cols) :
          /\ file.content.rows[i][c] \in DOMAIN NumText
          /\ cells[c] = Num(NumText[file.content.rows[i][c]])
    /\ \A c \in Range(date_columns) \cap Range(file.content.columns) :
          /\ DateValue(file, i, c) # NA
          /\ cells[c] = DateValue(file, i, c)

\* C28: the rows of the returned table are rows of the input, each at most
\* once and in the input's order: the index labels are positions of the
\* input, strictly increasing down the table, and every row holds the
\* values of the input row at its label.
C28_RowsAreInputRowsInOrder ==
    Succeeded =>
        /\ Len(ret.df.rows) <= Len(uploaded_file.content.rows)
        /\ \A i \in DOMAIN ret.df.rows :
              /\ ret.df.rows[i].idx + 1 \in DOMAIN uploaded_file.content.rows
              /\ ComesFromInputRow(uploaded_file, ret.df.rows[i].cells,
                                   ret.df.rows[i].idx + 1)
        /\ \A i, j \in DOMAIN ret.df.rows :
              i < j => ret.df.rows[i].idx < ret.df.rows[j].idx

\* A table of two rows is returned from an input of three different rows
\* whose second row was removed: the first and the third input row, in
\* that order.
C28_Witness ==
    /\ Succeeded
    /\ Len(uploaded_file.content.rows) = 3
    /\ uploaded_file.content.rows[1] # uploaded_file.content.rows[3]
    /\ Len(ret.df.rows) = 2
    /\ ret.df.rows[1].idx = 0
    /\ ret.df.rows[2].idx = 2

====
